---- MODULE Spec2Model ----
(***************************************************************************)
(* The lazy range-algebra engine of range-set-blaze: UnionIter, NotIter,   *)
(* SymDiffIter, UnionIterMap, the normalization stages UnsortedDisjoint    *)
(* and UnsortedDisjointMap, and the merges that feed them.  Every iterator *)
(* is a state machine over its struct fields; one action is one pass of    *)
(* the loop of its next(), and the upstream iterator is the environment:   *)
(* each pull draws the next item from the items the upstream's contract    *)
(* allows.                                                                 *)
(***************************************************************************)
EXTENDS Integers, Sequences, FiniteSets

\* ------------------------------------------------------------------ bounds
\* The element type T of the set flavor is the integer type MinValue..MaxValue.
MinValue == 0
MaxValue == 5
\* The most items one upstream iterator of ranges yields.
MaxLen == 3
\* The element type of the map flavor is MinValue..MaxValueMap.
MaxValueMap == 2
\* The most (range, value) items one upstream iterator yields.
MaxItems == 3
\* The element type of the from-a-list pipelines is MinValue..MaxValueList.
MaxValueList == 4
\* The number of streams a KMergeMap merges.
NumStreams == 3
\* NonZeroUsize::MAX, scaled down: the numbers are only compared, and the
\* count of items stays far from it.
NonZeroUsizeMAX == 15
\* The values V of the map flavor.
Values == {"a", "b"}

\* --------------------------------------------------------------- state
VARIABLES
    T,                      \* the element type T: Integer of this instantiation
    mode,                   \* which operator this run drives
    iter,                   \* the upstream iterator: contract, items yielded, fused end
    option_range,           \* UnionIter.option_range
    start_not,              \* NotIter.start_not
    next_time_return_none,  \* NotIter.next_time_return_none
    next_item,              \* SymDiffIter.next_item, UnionIterMap.next_item
    workspace,              \* SymDiffIter.workspace (a Vec), UnionIterMap.workspace (a heap)
    workspace_next_end,     \* SymDiffIter.workspace_next_end
    gather,                 \* SymDiffIter.gather, UnionIterMap.gather
    ready_to_go,            \* SymDiffIter.ready_to_go, UnionIterMap.ready_to_go
    out,                    \* the items next() has returned so far, in order
    finished,               \* next() has returned None
    overflow,               \* a +1 at the maximum or a -1 at the minimum was evaluated
    option_priority,        \* UnsortedDisjointMap.option_priority
    priority,               \* UnsortedDisjointMap.priority
    previous,               \* CheckSortedDisjointMap.previous
    seen_none,              \* CheckSortedDisjointMap.seen_none
    panicked                \* the assertion that failed, if one has

vars == <<T, mode, iter, option_range, start_not, next_time_return_none,
          next_item, workspace, workspace_next_end, gather, ready_to_go,
          out, finished, overflow, option_priority, priority,
          previous, seen_none, panicked>>

\* The fields of the set-flavor iterators without a workspace, and of the sweeps.
sweepVars == <<next_item, workspace, workspace_next_end, gather, ready_to_go>>
NoSweep ==
    /\ next_item = <<>>
    /\ workspace = <<>>
    /\ workspace_next_end = <<>>
    /\ gather = <<>>
    /\ ready_to_go = <<>>

\* The fields of the checking adapter, and their value where there is none.
checkVars == <<previous, seen_none, panicked>>
NoCheck ==
    /\ previous = <<>>
    /\ seen_none = FALSE
    /\ panicked = <<>>

\* The fields of the map normalization, and their value where there is none.
normVars == <<option_priority, priority>>
NoNorm ==
    /\ option_priority = <<>>
    /\ priority = <<>>

\* ------------------------------------------------------- Integer, Option
IntegerType(lo, hi) == [min |-> lo, max |-> hi]
min_value2 == T.min
max_value2 == T.max
safe_max_value == T.max
Domain == min_value2..max_value2

\* x + T::one() and x.add_one(): wraps at the type's maximum (release build).
add_one(x) == IF x = max_value2 THEN min_value2 ELSE x + 1
\* x - T::one() and x.sub_one(): wraps at the type's minimum (release build).
sub_one(x) == IF x = min_value2 THEN max_value2 ELSE x - 1

\* Option<X>: None is the empty tuple, Some(x) the one-tuple of x.
None == <<>>
Some(x) == <<x>>
Unwrap(o) == o[1]
Rng(s, e) == [start |-> s, end |-> e]
\* Every RangeInclusive<T>, the inverted ones (start > end) included.
AllRanges == {Rng(s, e) : s \in Domain, e \in Domain}
NonEmptyRanges == {r \in AllRanges : r.start <= r.end}

Max2(a, b) == IF a >= b THEN a ELSE b
Min2(a, b) == IF a <= b THEN a ELSE b

\* The integers a range covers (none when it is inverted).
Cover(r) == {x \in Domain : r.start <= x /\ x <= r.end}
CoverSeq(q) == UNION {Cover(q[i]) : i \in 1..Len(q)}

\* ------------------------------------------------------------- upstream
\* The contract the upstream promises (the marker traits).
NewIter(kind) == [kind |-> kind, yielded |-> <<>>, done |-> FALSE]

LastYielded(it) == it.yielded[Len(it.yielded)]

\* SortedStarts: starts are non-decreasing; a range may overlap the one
\* before it, and AssumeSortedStarts also lets inverted ranges through.
SortedStartsItems(it) ==
    {r \in AllRanges : it.yielded = <<>> \/ LastYielded(it).start <= r.start}

\* SortedDisjoint: non-empty ranges, each starting after a gap.
SortedDisjointItems(it) ==
    {r \in NonEmptyRanges : it.yielded = <<>> \/ LastYielded(it).end + 1 < r.start}

\* Priority<T, V, VR>: a (range, value) pair with its priority number.
Prio(s, e, v, p) == [start |-> s, end |-> e, value |-> v, priority |-> p]
RangeValue(s, e, v) == [start |-> s, end |-> e, value |-> v]

\* Every (range, value) pair, the inverted ranges included.
AllRangeValues == {RangeValue(r.start, r.end, v) : r \in AllRanges, v \in Values}

\* PrioritySortedStartsMap with the priority numbers pairwise distinct:
\* non-empty ranges, starts non-decreasing.
PrioritySortedStartsItems(it) ==
    LET used == {it.yielded[i].priority : i \in 1..Len(it.yielded)}
    IN  {Prio(r.start, r.end, v, p) :
            r \in {x \in NonEmptyRanges :
                      it.yielded = <<>> \/ LastYielded(it).start <= x.start},
            v \in Values,
            p \in (0..(MaxItems - 1)) \ used}

Yield(it, r) ==
    IF it.kind = "Vec"
    THEN [it EXCEPT !.yielded = Append(@, r), !.rest = Tail(@)]
    ELSE [it EXCEPT !.yielded = Append(@, r)]
Exhaust(it) == [it EXCEPT !.done = TRUE]

\* MergeMap::new and KMergeMap::new: the streams, each wrapped to tag its
\* items with the stream's position as the priority number (left 0, right 1).
MergeStreams(kind) ==
    IF kind \in {"MergeMap", "Merge"} THEN 0..1 ELSE 0..(NumStreams - 1)

\* The items stream i (a SortedDisjointMap) can give next: a non-empty
\* range after the stream's last one, carrying another value when it
\* touches it; tagged with priority number i.
StreamItems(it, i) ==
    LET mine == {k \in 1..Len(it.yielded) : it.yielded[k].priority = i}
        fits(r, v) ==
            \A k \in mine :
                /\ it.yielded[k].end < r.start
                /\ it.yielded[k].end + 1 = r.start => it.yielded[k].value # v
    IN  {x \in {Prio(r.start, r.end, v, i) : r \in NonEmptyRanges, v \in Values} :
            fits(x, x.value)}

\* merge_by(|a, b| a.start() < b.start()): the left item goes first when
\* the closure holds, the right one otherwise (a tie included).
MergeByFirstNever(a, b) == FALSE
MergeByFirst(a, b) == a.start < b.start

\* The merge yields y right after x: x was not behind y. In a MergeMap the
\* closure decides between a left and a right item; in a KMergeMap the heap
\* decides between two items the closure does not order.
MergeKeepsOrder(kind, x, y) ==
    /\ ~MergeByFirst(y, x)
    /\ (kind = "MergeMap" /\ x.priority = 0 /\ y.priority = 1) => MergeByFirst(x, y)

\* The items the merge of the streams can yield next.
MergeItems(it) ==
    {y \in UNION {StreamItems(it, i) : i \in MergeStreams(it.kind)} :
        it.yielded = <<>> \/ MergeKeepsOrder(it.kind, LastYielded(it), y)}

\* Merge::new and KMerge::new (merge.rs): SortedDisjoint streams of plain
\* ranges. The field stream of an item is not part of the range: it
\* remembers which of the streams gave it (left 0, right 1).
FromStream(r, i) == [start |-> r.start, end |-> r.end, stream |-> i]

\* The ranges stream i gave, in order.
StreamOf(it, i) ==
    LET mine == SelectSeq(it.yielded, LAMBDA x : x.stream = i)
    IN  [k \in 1..Len(mine) |-> Rng(mine[k].start, mine[k].end)]

\* What stream i can give next: a non-empty range after a gap.
PlainStreamItems(it, i) ==
    LET mine == StreamOf(it, i)
    IN  {FromStream(r, i) : r \in {r \in NonEmptyRanges :
            mine = <<>> \/ mine[Len(mine)].end + 1 < r.start}}

\* The merge yields y right after x: x was not behind y; between a left
\* and a right item of a Merge the closure decides, between two items the
\* closure does not order the heap of a KMerge decides.
PlainMergeKeepsOrder(kind, x, y) ==
    /\ ~MergeByFirst(y, x)
    /\ (kind = "Merge" /\ x.stream = 0 /\ y.stream = 1) => MergeByFirst(x, y)

PlainMergeItems(it) ==
    {y \in UNION {PlainStreamItems(it, i) : i \in MergeStreams(it.kind)} :
        it.yielded = <<>> \/ PlainMergeKeepsOrder(it.kind, LastYielded(it), y)}

\* Merge::new(a, b).collect() for two whole sequences: merge_by takes the
\* left head when the closure holds and the right head otherwise.
RECURSIVE MergeOf(_, _)
MergeOf(a, b) ==
    IF a = <<>> THEN b
    ELSE IF b = <<>> THEN a
    ELSE IF MergeByFirst(Head(a), Head(b))
         THEN <<Head(a)>> \o MergeOf(Tail(a), b)
    ELSE <<Head(b)>> \o MergeOf(a, Tail(b))

\* An upstream that breaks the PrioritySortedStartsMap contract: non-empty
\* items with distinct priority numbers, their starts in any order.
UnsortedPriorityItems(it) ==
    LET used == {it.yielded[i].priority : i \in 1..Len(it.yielded)}
    IN  {Prio(r.start, r.end, v, p) :
            r \in NonEmptyRanges, v \in Values, p \in (0..(MaxItems - 1)) \ used}

\* SortedDisjointMap: non-empty ranges, each starting after the one before
\* it ends; two ranges that touch carry different values.
SortedDisjointMapItems(it) ==
    {rv \in AllRangeValues :
        /\ rv.start <= rv.end
        /\ \/ it.yielded = <<>>
           \/ /\ LastYielded(it).end < rv.start
              /\ LastYielded(it).end + 1 = rv.start
                   => LastYielded(it).value # rv.value}

\* The items the upstream can give next, by its contract. An upstream is
\* fused (after its first None it gives nothing more) unless its kind says
\* NotFused: such an upstream can give a further item of its contract when
\* it is asked again after a None.
UpstreamItems(it) ==
    IF it.kind = "NotFusedSortedDisjoint"
    THEN (IF Len(it.yielded) >= MaxLen THEN {} ELSE SortedDisjointItems(it))
    ELSE IF it.kind = "NotFusedSortedStarts"
    THEN (IF Len(it.yielded) >= MaxLen THEN {}
          ELSE {r \in SortedStartsItems(it) : r.start <= r.end})
    ELSE IF it.kind = "NotFusedPrioritySortedStarts"
    THEN (IF Len(it.yielded) >= MaxItems THEN {} ELSE PrioritySortedStartsItems(it))
    ELSE IF it.done THEN {}
    ELSE IF it.kind = "PrioritySortedStartsShort"
         THEN (IF Len(it.yielded) >= MaxItems - 1 THEN {}
               ELSE PrioritySortedStartsItems(it))
    ELSE IF it.kind = "PrioritySortedStarts"
         THEN (IF Len(it.yielded) >= MaxItems THEN {} ELSE PrioritySortedStartsItems(it))
    ELSE IF it.kind \in {"MergeMap", "KMergeMap"}
         THEN (IF Len(it.yielded) >= MaxItems THEN {} ELSE MergeItems(it))
    ELSE IF it.kind \in {"Merge", "KMerge"}
         THEN (IF Len(it.yielded) >= MaxLen THEN {} ELSE PlainMergeItems(it))
    ELSE IF it.kind = "Vec"
         THEN (IF it.rest = <<>> THEN {} ELSE {Head(it.rest)})
    ELSE IF it.kind = "UnsortedPriority"
         THEN (IF Len(it.yielded) >= MaxItems THEN {} ELSE UnsortedPriorityItems(it))
    ELSE IF it.kind = "SortedDisjointMap"
         THEN (IF Len(it.yielded) >= MaxItems THEN {} ELSE SortedDisjointMapItems(it))
    ELSE IF it.kind = "UnsortedMap"
         THEN (IF Len(it.yielded) >= MaxItems THEN {} ELSE AllRangeValues)
    ELSE IF Len(it.yielded) >= MaxLen THEN {}
    ELSE IF it.kind = "Unsorted" THEN AllRanges
    ELSE IF it.kind = "UnsortedNonEmpty" THEN NonEmptyRanges
    ELSE IF it.kind = "SortedStarts" THEN SortedStartsItems(it)
    ELSE IF it.kind = "SortedStartsNonEmpty"
         THEN {r \in SortedStartsItems(it) : r.start <= r.end}
    ELSE SortedDisjointItems(it)

\* The upstream can return None now: any upstream of unknown length, a
\* vector's iterator only when no item is left.
CanExhaust(it) == IF it.kind = "Vec" THEN it.rest = <<>> ELSE TRUE

\* What one call of the upstream's next() can give: the upstream after the
\* call, with the Option it returned.
Pulls(it) ==
    (IF CanExhaust(it) THEN {[iter |-> Exhaust(it), item |-> None]} ELSE {})
    \cup {[iter |-> Yield(it, r), item |-> Some(r)] : r \in UpstreamItems(it)}

\* vec::IntoIter over the items q; source remembers the list q was made of.
NewVecIter(q, source) ==
    [kind |-> "Vec", yielded |-> <<>>, done |-> FALSE, rest |-> q, source |-> source]

RECURSIVE SortedByStart(_)
\* sorted_by_key(start) / sorted_by(start cmp): a stable sort, so items with
\* one start keep their order.
SortedByStart(q) ==
    IF q = <<>> THEN <<>>
    ELSE LET x == q[Len(q)]
             front == SortedByStart(SubSeq(q, 1, Len(q) - 1))
             before == SelectSeq(front, LAMBDA y : y.start <= x.start)
             after == SelectSeq(front, LAMBDA y : y.start > x.start)
         IN  before \o <<x>> \o after

\* ------------------------------------------------------------ UnionIter
\* union_iter.rs:166-167, the overlap-or-touch test.
UnionTouchesNoAdjacent(current_end, start) == start <= current_end
UnionTouchesAlways(current_end, start) == TRUE
UnionTouches(current_end, start) ==
    \/ start <= current_end
    \/ (current_end < safe_max_value /\ start <= add_one(current_end))

\* Whether that test evaluates current_end + 1 with current_end at the maximum.
UnionTouchOverflows(current_end, start) ==
    /\ ~(start <= current_end)
    /\ current_end < safe_max_value
    /\ current_end = max_value2

\* union_iter.rs:152, the test for an inverted range.
UnionIterSkipsNothing(r) == FALSE
UnionIterSkips(r) == r.end < r.start

\* union_iter.rs:169, the merged range.
UnionMergedKeepsNewEnd(current, r) == Rng(current.start, r.end)
UnionMerged(current, r) == Rng(current.start, Max2(current.end, r.end))

UnionUnchanged == UNCHANGED <<T, checkVars, normVars, mode, start_not, next_time_return_none, sweepVars>>

\* The upstream is exhausted: return option_range.take().
UnionIter_Exhausted ==
    /\ mode = "UnionIter"
    /\ CanExhaust(iter)
    /\ iter' = Exhaust(iter)
    /\ option_range' = None
    /\ out' = out \o option_range
    /\ finished' = (finished \/ option_range = None)
    /\ UNCHANGED overflow
    /\ UnionUnchanged

\* An inverted range: continue.
UnionIter_SkipInverted ==
    /\ mode = "UnionIter"
    /\ \E r \in UpstreamItems(iter) :
        /\ UnionIterSkips(r)
        /\ iter' = Yield(iter, r)
    /\ UNCHANGED <<option_range, out, finished, overflow>>
    /\ UnionUnchanged

\* No range in progress: adopt the item and continue.
UnionIter_Adopt ==
    /\ mode = "UnionIter"
    /\ option_range = None
    /\ \E r \in UpstreamItems(iter) :
        /\ ~UnionIterSkips(r)
        /\ iter' = Yield(iter, r)
        /\ option_range' = Some(Rng(r.start, r.end))
    /\ UNCHANGED <<out, finished, overflow>>
    /\ UnionUnchanged

\* The item overlaps or touches the range in progress: extend it and continue.
UnionIter_Extend ==
    /\ mode = "UnionIter"
    /\ option_range # None
    /\ \E r \in UpstreamItems(iter) :
        /\ ~UnionIterSkips(r)
        /\ UnionTouches(Unwrap(option_range).end, r.start)
        /\ iter' = Yield(iter, r)
        /\ option_range' = Some(UnionMerged(Unwrap(option_range), r))
        /\ overflow' = (overflow \/ UnionTouchOverflows(Unwrap(option_range).end, r.start))
    /\ UNCHANGED <<out, finished>>
    /\ UnionUnchanged

\* The item starts after a gap: return the range in progress, keep the item.
UnionIter_Emit ==
    /\ mode = "UnionIter"
    /\ option_range # None
    /\ \E r \in UpstreamItems(iter) :
        /\ ~UnionIterSkips(r)
        /\ ~UnionTouches(Unwrap(option_range).end, r.start)
        /\ iter' = Yield(iter, r)
        /\ option_range' = Some(Rng(r.start, r.end))
        /\ out' = out \o option_range
        /\ overflow' = (overflow \/ UnionTouchOverflows(Unwrap(option_range).end, r.start))
    /\ UNCHANGED finished
    /\ UnionUnchanged

UnionIterNext ==
    \/ UnionIter_Exhausted
    \/ UnionIter_SkipInverted
    \/ UnionIter_Adopt
    \/ UnionIter_Extend
    \/ UnionIter_Emit

\* UnionIter::new(q).collect(): the ranges UnionIter::next returns over the
\* whole of the sequence q, option_range being the range in progress.
RECURSIVE UnionIterFold(_, _)
UnionIterFold(q, current) ==
    IF q = <<>> THEN current
    ELSE LET r == Head(q)
         IN  IF UnionIterSkips(r) THEN UnionIterFold(Tail(q), current)
             ELSE IF current = None
                  THEN UnionIterFold(Tail(q), Some(Rng(r.start, r.end)))
             ELSE IF UnionTouches(Unwrap(current).end, r.start)
                  THEN UnionIterFold(Tail(q), Some(UnionMerged(Unwrap(current), r)))
             ELSE current \o UnionIterFold(Tail(q), Some(Rng(r.start, r.end)))

UnionIterOf(q) == UnionIterFold(q, None)

\* UnionIter::new over a SortedStarts upstream.
InitUnion ==
    /\ T = IntegerType(MinValue, MaxValue)
    /\ mode = "UnionIter"
    /\ iter = NewIter("SortedStarts")
    /\ option_range = None
    /\ start_not = None
    /\ next_time_return_none = FALSE
    /\ NoSweep
    /\ out = <<>>
    /\ finished = FALSE
    /\ overflow = FALSE
    /\ NoNorm
    /\ NoCheck

SpecUnion == InitUnion /\ [][UnionIterNext]_vars

\* ----------------------------------------------------- UnsortedDisjoint
\* unsorted_disjoint.rs:65-67: the held range and the next one neither
\* overlap nor touch (the subtraction is only made from min + 2 up).
min_value_plus_2 == add_one(add_one(min_value2))
UnsortedApartOneSided(self_range, r) ==
    r.start >= min_value_plus_2 /\ self_range.end <= sub_one(sub_one(r.start))
UnsortedApart(self_range, r) ==
    \/ (r.start >= min_value_plus_2 /\ self_range.end <= sub_one(sub_one(r.start)))
    \/ (self_range.start >= min_value_plus_2
        /\ r.end <= sub_one(sub_one(self_range.start)))

UnsortedUnchanged ==
    UNCHANGED <<T, checkVars, normVars, mode, start_not, next_time_return_none, sweepVars, finished, overflow>>

\* The upstream gives an inverted range: continue.
Unsorted_SkipInverted ==
    /\ mode = "UnsortedDisjoint"
    /\ \E p \in Pulls(iter) :
        /\ p.item # None
        /\ Unwrap(p.item).start > Unwrap(p.item).end
        /\ iter' = p.iter
    /\ UNCHANGED <<option_range, out>>
    /\ UnsortedUnchanged

\* No range is held: hold this one and continue.
Unsorted_Adopt ==
    /\ mode = "UnsortedDisjoint"
    /\ option_range = None
    /\ \E p \in Pulls(iter) :
        /\ p.item # None
        /\ Unwrap(p.item).start <= Unwrap(p.item).end
        /\ iter' = p.iter
        /\ option_range' = p.item
    /\ UNCHANGED out
    /\ UnsortedUnchanged

\* The next range is apart from the held one: return the held one.
Unsorted_Emit ==
    /\ mode = "UnsortedDisjoint"
    /\ option_range # None
    /\ \E p \in Pulls(iter) :
        /\ p.item # None
        /\ Unwrap(p.item).start <= Unwrap(p.item).end
        /\ UnsortedApart(Unwrap(option_range), Unwrap(p.item))
        /\ iter' = p.iter
        /\ option_range' = p.item
    /\ out' = out \o option_range
    /\ UnsortedUnchanged

\* The next range overlaps or touches the held one: merge and continue.
Unsorted_Merge ==
    /\ mode = "UnsortedDisjoint"
    /\ option_range # None
    /\ \E p \in Pulls(iter) :
        /\ p.item # None
        /\ Unwrap(p.item).start <= Unwrap(p.item).end
        /\ ~UnsortedApart(Unwrap(option_range), Unwrap(p.item))
        /\ iter' = p.iter
        /\ option_range' =
             Some(Rng(Min2(Unwrap(option_range).start, Unwrap(p.item).start),
                      Max2(Unwrap(option_range).end, Unwrap(p.item).end)))
    /\ UNCHANGED out
    /\ UnsortedUnchanged

\* The upstream is exhausted and a range is held: return option_range.take().
Unsorted_Flush ==
    /\ mode = "UnsortedDisjoint"
    /\ option_range # None
    /\ \E p \in Pulls(iter) :
        /\ p.item = None
        /\ iter' = p.iter
    /\ out' = out \o option_range
    /\ option_range' = None
    /\ UnsortedUnchanged

\* The upstream is exhausted and no range is held: next() returns None, the
\* sort has every item, and UnionIter::from hands the sorted items to a
\* new UnionIter.
Unsorted_IntoUnionIter ==
    /\ mode = "UnsortedDisjoint"
    /\ option_range = None
    /\ \E p \in Pulls(iter) :
        /\ p.item = None
        /\ iter' = NewVecIter(SortedByStart(out), p.iter.yielded)
    /\ mode' = "UnionIter"
    /\ out' = <<>>
    /\ UNCHANGED <<T, checkVars, normVars, option_range, start_not, next_time_return_none, sweepVars,
                   finished, overflow>>

UnsortedDisjointNext ==
    \/ Unsorted_SkipInverted
    \/ Unsorted_Adopt
    \/ Unsorted_Emit
    \/ Unsorted_Merge
    \/ Unsorted_Flush
    \/ Unsorted_IntoUnionIter

\* UnsortedDisjoint::new(q).collect(): the ranges UnsortedDisjoint::next
\* returns over the whole of the list q, option_range being the range held.
RECURSIVE UnsortedDisjointFold(_, _)
UnsortedDisjointFold(q, current) ==
    IF q = <<>> THEN current
    ELSE LET r == Head(q)
         IN  IF r.start > r.end THEN UnsortedDisjointFold(Tail(q), current)
             ELSE IF current = None
                  THEN UnsortedDisjointFold(Tail(q), Some(r))
             ELSE IF UnsortedApart(Unwrap(current), r)
                  THEN current \o UnsortedDisjointFold(Tail(q), Some(r))
             ELSE UnsortedDisjointFold(Tail(q),
                      Some(Rng(Min2(Unwrap(current).start, r.start),
                               Max2(Unwrap(current).end, r.end))))

UnsortedDisjointOf(q) == UnsortedDisjointFold(q, None)

\* UnionIter::from_iter over a list of ranges in any order.
InitFromIter ==
    /\ T = IntegerType(MinValue, MaxValueList)
    /\ mode = "UnsortedDisjoint"
    /\ iter = NewIter("Unsorted")
    /\ option_range = None
    /\ start_not = None
    /\ next_time_return_none = FALSE
    /\ NoSweep
    /\ out = <<>>
    /\ finished = FALSE
    /\ overflow = FALSE
    /\ NoNorm
    /\ NoCheck

\* UnsortedDisjoint drops the inverted ranges, so the UnionIter behind it
\* never takes its branch for them.
FromIterNext ==
    \/ UnsortedDisjointNext
    \/ UnionIter_Exhausted
    \/ UnionIter_Adopt
    \/ UnionIter_Extend
    \/ UnionIter_Emit

SpecFromIter == InitFromIter /\ [][FromIterNext]_vars

\* -------------------------------------------------------------- NotIter
\* not_iter.rs:77 and :83, the guard of end.add_one().
NotEndBelowMaxOffByOne(end) == end <= max_value2
NotEndBelowMax(end) == end < max_value2

\* not_iter.rs:76, the gap in front of the input range.
NotGapUpToStart(from, start) == Rng(from, start)
NotGap(from, start) == Rng(from, sub_one(start))

\* not_iter.rs:73, the test for a gap in front of the input range.
NotHasGapNever(from, start) == FALSE
NotHasGap(from, start) == from < start

\* not_iter.rs:66-68: with next_time_return_none set, next returns None at
\* once.
NotReturnsNoneNever(flag) == FALSE
NotReturnsNone(flag) == flag

NotUnchanged == UNCHANGED <<T, checkVars, normVars, mode, option_range, sweepVars>>

\* next_time_return_none is set: return None without touching the upstream.
NotIter_ReturnNone ==
    /\ mode = "NotIter"
    /\ NotReturnsNone(next_time_return_none)
    /\ finished' = TRUE
    /\ UNCHANGED <<iter, start_not, next_time_return_none, out, overflow>>
    /\ NotUnchanged

\* The upstream is exhausted: return the last gap, start_not..=max.
NotIter_Exhausted ==
    /\ mode = "NotIter"
    /\ ~NotReturnsNone(next_time_return_none)
    /\ CanExhaust(iter)
    /\ iter' = Exhaust(iter)
    /\ next_time_return_none' = TRUE
    /\ out' = Append(out, Rng(start_not, max_value2))
    /\ UNCHANGED <<start_not, finished, overflow>>
    /\ NotUnchanged

\* A gap lies in front of the input range: return it.
NotIter_Gap ==
    /\ mode = "NotIter"
    /\ ~NotReturnsNone(next_time_return_none)
    /\ \E r \in UpstreamItems(iter) :
        /\ NotHasGap(start_not, r.start)
        /\ iter' = Yield(iter, r)
        /\ out' = Append(out, NotGap(start_not, r.start))
        /\ IF NotEndBelowMax(r.end)
           THEN /\ start_not' = add_one(r.end)
                /\ UNCHANGED next_time_return_none
           ELSE /\ next_time_return_none' = TRUE
                /\ UNCHANGED start_not
        /\ overflow' = (overflow \/ r.start = min_value2
                                 \/ (NotEndBelowMax(r.end) /\ r.end = max_value2))
    /\ UNCHANGED finished
    /\ NotUnchanged

\* No gap in front of the input range: step over it and call next() again.
NotIter_Skip ==
    /\ mode = "NotIter"
    /\ ~NotReturnsNone(next_time_return_none)
    /\ \E r \in UpstreamItems(iter) :
        /\ ~NotHasGap(start_not, r.start)
        /\ NotEndBelowMax(r.end)
        /\ iter' = Yield(iter, r)
        /\ start_not' = add_one(r.end)
        /\ overflow' = (overflow \/ r.end = max_value2)
    /\ UNCHANGED <<next_time_return_none, out, finished>>
    /\ NotUnchanged

\* No gap, and the input range ends at the maximum: return None.
NotIter_EndAtMax ==
    /\ mode = "NotIter"
    /\ ~NotReturnsNone(next_time_return_none)
    /\ \E r \in UpstreamItems(iter) :
        /\ ~NotHasGap(start_not, r.start)
        /\ ~NotEndBelowMax(r.end)
        /\ iter' = Yield(iter, r)
    /\ next_time_return_none' = TRUE
    /\ finished' = TRUE
    /\ UNCHANGED <<start_not, out, overflow>>
    /\ NotUnchanged

NotIterNext ==
    \/ NotIter_ReturnNone
    \/ NotIter_Exhausted
    \/ NotIter_Gap
    \/ NotIter_Skip
    \/ NotIter_EndAtMax

\* NotIter::new(q).collect(): the ranges NotIter::next returns over the
\* whole of the sequence q, from the state start_not.
RECURSIVE NotIterFold(_, _)
NotIterFold(q, from) ==
    IF q = <<>> THEN <<Rng(from, max_value2)>>
    ELSE LET r == Head(q)
             rest == IF NotEndBelowMax(r.end)
                     THEN NotIterFold(Tail(q), add_one(r.end))
                     ELSE <<>>
         IN  IF NotHasGap(from, r.start) THEN <<NotGap(from, r.start)>> \o rest
             ELSE rest

NotIterOf(q) == NotIterFold(q, min_value2)

\* NotIter::new over a SortedDisjoint upstream.
InitNot ==
    /\ T = IntegerType(MinValue, MaxValue)
    /\ mode = "NotIter"
    /\ iter = NewIter("SortedDisjoint")
    /\ option_range = None
    /\ start_not = min_value2
    /\ next_time_return_none = FALSE
    /\ NoSweep
    /\ out = <<>>
    /\ finished = FALSE
    /\ overflow = FALSE
    /\ NoNorm
    /\ NoCheck

SpecNot == InitNot /\ [][NotIterNext]_vars

\* ---------------------------------------------------------- SymDiffIter
Reverse(q) == [i \in 1..Len(q) |-> q[Len(q) + 1 - i]]

\* sym_diff_iter.rs:51-59.
min_next_end(next_end, next_item_end) ==
    Some(IF next_end = None THEN next_item_end
         ELSE Min2(Unwrap(next_end), next_item_end))

RECURSIVE MinEndOfSeq(_)
\* The fold of min_next_end over the ends of a sequence of ranges, from None.
MinEndOfSeq(q) ==
    IF q = <<>> THEN None
    ELSE min_next_end(MinEndOfSeq(Tail(q)), Head(q).end)

\* sym_diff_iter.rs:143, :169, :182: the coverage of the segment is odd.
SymDiffIsOddAnyCoverage(ws) == Len(ws) >= 1
SymDiffIsOdd(ws) == Len(ws) % 2 = 1

\* sym_diff_iter.rs:135-138, the end of the segment the sweep settles.
SymDiffSegmentEndIgnoresItem(ws_next_end, item) == Unwrap(ws_next_end)
SymDiffSegmentEnd(ws_next_end, item) ==
    IF item # None
    THEN Min2(sub_one(Unwrap(item).start), Unwrap(ws_next_end))
    ELSE Unwrap(ws_next_end)

\* sym_diff_iter.rs:192-206: pop every fragment, drop the ones the segment
\* consumed, trim the others to start after it.
SymDiffRebuildKeepsAll(ws, next_end) == ws
SymDiffRebuild(ws, next_end) ==
    LET kept == SelectSeq(Reverse(ws), LAMBDA item : ~(item.end <= next_end))
    IN  [i \in 1..Len(kept) |-> Rng(add_one(next_end), kept[i].end)]

\* sym_diff_iter.rs:90-111: the held item is pushed when the workspace is
\* empty or the item starts where the fragments start.
SymDiffGoesIntoWorkspaceAlways(item, ws) == TRUE
SymDiffGoesIntoWorkspace(item, ws) ==
    IF ws = <<>> THEN TRUE ELSE item.start = ws[1].start

\* sym_diff_iter.rs:141-142, whether the settled segment continues the
\* gathered range.
SymDiffContiguousNever(g, best) == FALSE
SymDiffContiguous(g, best) ==
    IF g = None THEN FALSE ELSE add_one(Unwrap(g).end) = best.start

SymDiffUnchanged == UNCHANGED <<T, checkVars, normVars, mode, option_range, start_not, next_time_return_none>>

\* ready_to_go holds a range: return it.
SymDiff_ReturnReady ==
    /\ mode = "SymDiffIter"
    /\ ready_to_go # None
    /\ out' = out \o ready_to_go
    /\ ready_to_go' = None
    /\ UNCHANGED <<iter, next_item, workspace, workspace_next_end, gather,
                   finished, overflow>>
    /\ SymDiffUnchanged

\* next_item goes into the workspace (the workspace is empty, or the item
\* starts where its fragments start); pull the next next_item and continue.
SymDiff_Push ==
    /\ mode = "SymDiffIter"
    /\ ready_to_go = None
    /\ next_item # None
    /\ SymDiffGoesIntoWorkspace(Unwrap(next_item), workspace)
    /\ workspace_next_end' = min_next_end(workspace_next_end, Unwrap(next_item).end)
    /\ workspace' = Append(workspace, Unwrap(next_item))
    /\ \E p \in Pulls(iter) :
        /\ iter' = p.iter
        /\ next_item' = p.item
    /\ UNCHANGED <<gather, ready_to_go, out, finished, overflow>>
    /\ SymDiffUnchanged

\* The workspace is empty and no item is held: return gather.take().
SymDiff_Done ==
    /\ mode = "SymDiffIter"
    /\ ready_to_go = None
    /\ next_item = None
    /\ workspace = <<>>
    /\ out' = out \o gather
    /\ finished' = (finished \/ gather = None)
    /\ gather' = None
    /\ UNCHANGED <<iter, next_item, workspace, workspace_next_end, ready_to_go,
                   overflow>>
    /\ SymDiffUnchanged

\* The sweep: settle the segment from the fragments' start to next_end,
\* gather it when its coverage is odd, and rebuild the workspace behind it.
SymDiff_Sweep ==
    /\ mode = "SymDiffIter"
    /\ ready_to_go = None
    /\ workspace # <<>>
    /\ IF next_item = None THEN TRUE
       ELSE ~SymDiffGoesIntoWorkspace(Unwrap(next_item), workspace)
    /\ LET best == workspace[1]
           next_end == SymDiffSegmentEnd(workspace_next_end, next_item)
           odd == SymDiffIsOdd(workspace)
           front == IF odd THEN Some(Rng(best.start, next_end)) ELSE None
           contiguous == SymDiffContiguous(gather, best)
       IN  /\ gather' = IF contiguous
                        THEN (IF odd THEN Some(Rng(Unwrap(gather).start, next_end))
                              ELSE None)
                        ELSE front
           /\ ready_to_go' = IF contiguous /\ odd THEN None ELSE gather
           /\ workspace' = SymDiffRebuild(workspace, next_end)
           /\ workspace_next_end' = MinEndOfSeq(SymDiffRebuild(workspace, next_end))
           /\ overflow' = \/ overflow
                          \/ (next_item # None /\ Unwrap(next_item).start = min_value2)
                          \/ (gather # None /\ Unwrap(gather).end = max_value2)
                          \/ (next_end = max_value2
                              /\ \E i \in 1..Len(workspace) : workspace[i].end > next_end)
    /\ UNCHANGED <<iter, next_item, out, finished>>
    /\ SymDiffUnchanged

SymDiffIterNext ==
    \/ SymDiff_ReturnReady
    \/ SymDiff_Push
    \/ SymDiff_Done
    \/ SymDiff_Sweep

\* SymDiffIter::new over a SortedStarts upstream of non-empty ranges: the
\* constructor pulls the first item.
InitSymDiff ==
    /\ T = IntegerType(MinValue, MaxValue)
    /\ mode = "SymDiffIter"
    /\ \E p \in Pulls(NewIter("SortedStartsNonEmpty")) :
        /\ iter = p.iter
        /\ next_item = p.item
    /\ workspace = <<>>
    /\ workspace_next_end = None
    /\ gather = None
    /\ ready_to_go = None
    /\ option_range = None
    /\ start_not = None
    /\ next_time_return_none = FALSE
    /\ out = <<>>
    /\ finished = FALSE
    /\ overflow = FALSE
    /\ NoNorm
    /\ NoCheck

SpecSymDiff == InitSymDiff /\ [][SymDiffIterNext]_vars

\* --------------------------------------------------------- UnionIterMap
\* sorted_disjoint_map.rs:1165-1175, impl Ord for Priority: the smaller
\* priority number is the greater (better) Priority.
PriorityGtLargerIsBetter(a, b) == a.priority > b.priority
PriorityGt(a, b) == a.priority < b.priority
PriorityLt(a, b) == PriorityGt(b, a)

\* BinaryHeap::peek: the greatest Priority of the workspace.
Peek(ws) == CHOOSE a \in ws : \A b \in ws : a = b \/ ~PriorityGt(b, a)

\* union_iter_map.rs:101: a same-start item is pushed only when it is better
\* than the best fragment or reaches further.
UnionMapPushesOnlyBetter(item, best) == PriorityGt(item, best)
UnionMapPushes(item, best) == PriorityGt(item, best) \/ item.end > best.end

\* union_iter_map.rs:84-117: the held item is looked at when the workspace is
\* empty or the item starts where the best fragment starts.
UnionMapGoesIntoWorkspaceAlways(item, ws) == TRUE
UnionMapGoesIntoWorkspace(item, ws) ==
    IF ws = {} THEN TRUE ELSE item.start = Peek(ws).start

\* union_iter_map.rs:140-150, the end of the segment the sweep settles.
UnionMapSegmentEnd(best, item) ==
    IF item # None THEN Min2(sub_one(Unwrap(item).start), best.end) ELSE best.end

\* union_iter_map.rs:154-155: the gather continues into the best fragment.
UnionMapContinuesNever(g, best) == FALSE
UnionMapContinues(g, best) == g.value = best.value /\ add_one(g.end) = best.start

\* union_iter_map.rs:205: a fragment worse than the new best that reaches
\* no further is not kept.
UnionMapDominated(item, new_best) ==
    PriorityLt(item, new_best) /\ item.end <= new_best.end

RECURSIVE UnionMapRebuild(_, _, _)
\* union_iter_map.rs:190-217: pop the fragments best first, drop the ones the
\* segment consumed, trim the others to start after it and keep those that
\* the best kept so far does not dominate.
UnionMapRebuild(ws, next_end, new_workspace) ==
    IF ws = {} THEN new_workspace
    ELSE LET popped == Peek(ws)
             item == [popped EXCEPT !.start = add_one(next_end)]
             rest == ws \ {popped}
         IN  IF popped.end <= next_end
             THEN UnionMapRebuild(rest, next_end, new_workspace)
             ELSE IF new_workspace = {}
             THEN UnionMapRebuild(rest, next_end, {item})
             ELSE IF UnionMapDominated(item, Peek(new_workspace))
             THEN UnionMapRebuild(rest, next_end, new_workspace)
             ELSE UnionMapRebuild(rest, next_end, new_workspace \cup {item})

UnionMapUnchanged ==
    UNCHANGED <<T, checkVars, normVars, mode, option_range, start_not, next_time_return_none,
                workspace_next_end>>

\* ready_to_go holds an item: return it.
UnionMap_ReturnReady ==
    /\ mode = "UnionIterMap"
    /\ ready_to_go # None
    /\ out' = out \o ready_to_go
    /\ ready_to_go' = None
    /\ UNCHANGED <<iter, next_item, workspace, gather, finished, overflow>>
    /\ UnionMapUnchanged

\* next_item is looked at for the workspace (pushed, or thrown away when a
\* same-start fragment dominates it); pull the next next_item and continue.
UnionMap_Push ==
    /\ mode = "UnionIterMap"
    /\ ready_to_go = None
    /\ next_item # None
    /\ UnionMapGoesIntoWorkspace(Unwrap(next_item), workspace)
    /\ workspace' = IF workspace = {} THEN {Unwrap(next_item)}
                    ELSE IF UnionMapPushes(Unwrap(next_item), Peek(workspace))
                    THEN workspace \cup {Unwrap(next_item)}
                    ELSE workspace
    /\ \E p \in Pulls(iter) :
        /\ iter' = p.iter
        /\ next_item' = p.item
    /\ UNCHANGED <<gather, ready_to_go, out, finished, overflow>>
    /\ UnionMapUnchanged

\* The workspace is empty and no item is held: return gather.take().
UnionMap_Done ==
    /\ mode = "UnionIterMap"
    /\ ready_to_go = None
    /\ next_item = None
    /\ workspace = {}
    /\ out' = out \o gather
    /\ finished' = (finished \/ gather = None)
    /\ gather' = None
    /\ UNCHANGED <<iter, next_item, workspace, ready_to_go, overflow>>
    /\ UnionMapUnchanged

\* The sweep: the best fragment decides the segment from its start to
\* next_end; gather it and rebuild the workspace behind it.
UnionMap_Sweep ==
    /\ mode = "UnionIterMap"
    /\ ready_to_go = None
    /\ workspace # {}
    /\ IF next_item = None THEN TRUE
       ELSE ~UnionMapGoesIntoWorkspace(Unwrap(next_item), workspace)
    /\ LET best == Peek(workspace)
           next_end == UnionMapSegmentEnd(best, next_item)
           front == RangeValue(best.start, next_end, best.value)
           continues == IF gather = None THEN FALSE
                        ELSE UnionMapContinues(Unwrap(gather), best)
       IN  /\ gather' = IF continues
                        THEN Some([Unwrap(gather) EXCEPT !.end = next_end])
                        ELSE Some(front)
           /\ ready_to_go' = IF continues THEN None ELSE gather
           /\ workspace' = UnionMapRebuild(workspace, next_end, {})
           /\ overflow' = \/ overflow
                          \/ (next_item # None /\ Unwrap(next_item).start = min_value2)
                          \/ (gather # None /\ Unwrap(gather).value = best.value
                              /\ Unwrap(gather).end = max_value2)
                          \/ (next_end = max_value2
                              /\ \E w \in workspace : w.end > next_end)
    /\ UNCHANGED <<iter, next_item, out, finished>>
    /\ UnionMapUnchanged

UnionIterMapNext ==
    \/ UnionMap_ReturnReady
    \/ UnionMap_Push
    \/ UnionMap_Done
    \/ UnionMap_Sweep

\* UnionIterMap::new over a priority-tagged SortedStarts upstream: the
\* constructor pulls the first item.
InitUnionMap ==
    /\ T = IntegerType(MinValue, MaxValueMap)
    /\ mode = "UnionIterMap"
    /\ \E p \in Pulls(NewIter("PrioritySortedStarts")) :
        /\ iter = p.iter
        /\ next_item = p.item
    /\ workspace = {}
    /\ workspace_next_end = None
    /\ gather = None
    /\ ready_to_go = None
    /\ option_range = None
    /\ start_not = None
    /\ next_time_return_none = FALSE
    /\ out = <<>>
    /\ finished = FALSE
    /\ overflow = FALSE
    /\ NoNorm
    /\ NoCheck

SpecUnionMap == InitUnionMap /\ [][UnionIterMapNext]_vars

\* ------------------------------------------------- MergeMap, KMergeMap
\* UnionIterMap::new over a merge of SortedDisjointMap streams.
InitUnionMapOver(kind) ==
    /\ T = IntegerType(MinValue, MaxValueMap)
    /\ mode = "UnionIterMap"
    /\ \E p \in Pulls(NewIter(kind)) :
        /\ iter = p.iter
        /\ next_item = p.item
    /\ workspace = {}
    /\ workspace_next_end = None
    /\ gather = None
    /\ ready_to_go = None
    /\ option_range = None
    /\ start_not = None
    /\ next_time_return_none = FALSE
    /\ out = <<>>
    /\ finished = FALSE
    /\ overflow = FALSE
    /\ NoNorm
    /\ NoCheck

InitMergeMap == InitUnionMapOver("MergeMap")
InitKMergeMap == InitUnionMapOver("KMergeMap")

SpecMergeMap == (InitMergeMap \/ InitKMergeMap) /\ [][UnionIterMapNext]_vars

\* -------------------------------------------------- UnsortedDisjointMap
\* range_values.rs:393-399, non_zero_checked_sub: None when nothing above
\* zero is left.
non_zero_checked_sub(value, subtrahend) ==
    IF value - subtrahend > 0 THEN Some(value - subtrahend) ELSE None

\* unsorted_disjoint_map.rs:75-78: the priority number given to the items,
\* one after the other.
NextPriorityCountingUp(p) == Some(p + 1)
NextPriority(p) == non_zero_checked_sub(p, 1)

\* unsorted_disjoint_map.rs:75-76: the pulled pair, tagged.
Tagged(rv, p) == Prio(rv.start, rv.end, rv.value, p)

\* unsorted_disjoint_map.rs:98-108: the next item is merged into the held
\* one when the ranges overlap or touch and the values are equal.
UnsortedMapMergesAnyValue(current, item) == ~UnsortedApart(current, item)
UnsortedMapMerges(current, item) ==
    ~UnsortedApart(current, item) /\ current.value = item.value

UnsortedMapUnchanged ==
    UNCHANGED <<T, checkVars, mode, option_range, start_not, next_time_return_none, sweepVars,
                finished, overflow>>

\* The upstream gives an inverted range: it uses up a priority number and
\* is dropped.
UnsortedMap_SkipInverted ==
    /\ mode = "UnsortedDisjointMap"
    /\ NextPriority(priority) # None
    /\ \E p \in Pulls(iter) :
        /\ p.item # None
        /\ Unwrap(p.item).start > Unwrap(p.item).end
        /\ iter' = p.iter
    /\ priority' = Unwrap(NextPriority(priority))
    /\ UNCHANGED <<option_priority, out>>
    /\ UnsortedMapUnchanged

\* No item is held: hold this one and continue.
UnsortedMap_Adopt ==
    /\ mode = "UnsortedDisjointMap"
    /\ NextPriority(priority) # None
    /\ option_priority = None
    /\ \E p \in Pulls(iter) :
        /\ p.item # None
        /\ Unwrap(p.item).start <= Unwrap(p.item).end
        /\ iter' = p.iter
        /\ option_priority' = Some(Tagged(Unwrap(p.item), priority))
    /\ priority' = Unwrap(NextPriority(priority))
    /\ UNCHANGED out
    /\ UnsortedMapUnchanged

\* The next item is apart from the held one, or meets it with another
\* value: return the held one and hold the next.
UnsortedMap_Emit ==
    /\ mode = "UnsortedDisjointMap"
    /\ NextPriority(priority) # None
    /\ option_priority # None
    /\ \E p \in Pulls(iter) :
        /\ p.item # None
        /\ Unwrap(p.item).start <= Unwrap(p.item).end
        /\ ~UnsortedMapMerges(Unwrap(option_priority), Unwrap(p.item))
        /\ iter' = p.iter
        /\ option_priority' = Some(Tagged(Unwrap(p.item), priority))
    /\ priority' = Unwrap(NextPriority(priority))
    /\ out' = out \o option_priority
    /\ UnsortedMapUnchanged

\* The next item overlaps or touches the held one and has its value: merge
\* the ranges under the held item's priority number.
UnsortedMap_Merge ==
    /\ mode = "UnsortedDisjointMap"
    /\ NextPriority(priority) # None
    /\ option_priority # None
    /\ \E p \in Pulls(iter) :
        /\ p.item # None
        /\ Unwrap(p.item).start <= Unwrap(p.item).end
        /\ UnsortedMapMerges(Unwrap(option_priority), Unwrap(p.item))
        /\ iter' = p.iter
        /\ option_priority' =
             Some([Unwrap(option_priority) EXCEPT
                     !.start = Min2(@, Unwrap(p.item).start),
                     !.end = Max2(@, Unwrap(p.item).end)])
    /\ priority' = Unwrap(NextPriority(priority))
    /\ UNCHANGED out
    /\ UnsortedMapUnchanged

\* The upstream is exhausted and an item is held: return option_priority.take().
UnsortedMap_Flush ==
    /\ mode = "UnsortedDisjointMap"
    /\ option_priority # None
    /\ \E p \in Pulls(iter) :
        /\ p.item = None
        /\ iter' = p.iter
    /\ out' = out \o option_priority
    /\ option_priority' = None
    /\ UNCHANGED priority
    /\ UnsortedMapUnchanged

\* The upstream is exhausted and no item is held: next() returns None, the
\* sort has every item, and UnionIterMap::from builds the UnionIterMap over
\* the sorted items; its constructor pulls the first of them.
UnsortedMap_IntoUnionIterMap ==
    /\ mode = "UnsortedDisjointMap"
    /\ option_priority = None
    /\ \E p \in Pulls(iter) :
        /\ p.item = None
        /\ \E q \in Pulls(NewVecIter(SortedByStart(out), p.iter.yielded)) :
            /\ iter' = q.iter
            /\ next_item' = q.item
    /\ mode' = "UnionIterMap"
    /\ out' = <<>>
    /\ UNCHANGED <<T, checkVars, normVars, option_range, start_not, next_time_return_none,
                   workspace, workspace_next_end, gather, ready_to_go,
                   finished, overflow>>

UnsortedDisjointMapNext ==
    \/ UnsortedMap_SkipInverted
    \/ UnsortedMap_Adopt
    \/ UnsortedMap_Emit
    \/ UnsortedMap_Merge
    \/ UnsortedMap_Flush
    \/ UnsortedMap_IntoUnionIterMap

\* UnionIterMap::from_iter over a list of (range, value) pairs in any order.
InitFromIterMap ==
    /\ T = IntegerType(MinValue, MaxValueMap)
    /\ mode = "UnsortedDisjointMap"
    /\ iter = NewIter("UnsortedMap")
    /\ option_priority = None
    /\ priority = NonZeroUsizeMAX
    /\ NoCheck
    /\ option_range = None
    /\ start_not = None
    /\ next_time_return_none = FALSE
    /\ next_item = None
    /\ workspace = {}
    /\ workspace_next_end = None
    /\ gather = None
    /\ ready_to_go = None
    /\ out = <<>>
    /\ finished = FALSE
    /\ overflow = FALSE

FromIterMapNext == UnsortedDisjointMapNext \/ UnionIterMapNext

SpecFromIterMap == InitFromIterMap /\ [][FromIterMapNext]_vars

RECURSIVE UnionIterMapFold(_, _, _, _)
\* UnionIterMap::next called until it returns None, over the items q still
\* in the upstream, with next_item, workspace and gather as they stand: the
\* items returned, in order.
UnionIterMapFold(q, item, ws, g) ==
    IF item # None /\ UnionMapGoesIntoWorkspace(Unwrap(item), ws)
    THEN UnionIterMapFold(
             IF q = <<>> THEN q ELSE Tail(q),
             IF q = <<>> THEN None ELSE Some(Head(q)),
             IF ws = {} THEN {Unwrap(item)}
             ELSE IF UnionMapPushes(Unwrap(item), Peek(ws))
             THEN ws \cup {Unwrap(item)}
             ELSE ws,
             g)
    ELSE IF ws = {} THEN g
    ELSE LET best == Peek(ws)
             next_end == UnionMapSegmentEnd(best, item)
             front == RangeValue(best.start, next_end, best.value)
             continues == IF g = None THEN FALSE
                          ELSE UnionMapContinues(Unwrap(g), best)
         IN  (IF continues THEN <<>> ELSE g)
             \o UnionIterMapFold(q, item, UnionMapRebuild(ws, next_end, {}),
                                 IF continues
                                 THEN Some([Unwrap(g) EXCEPT !.end = next_end])
                                 ELSE Some(front))

\* UnionIterMap::new(q).collect(): the constructor pulls the first item.
UnionIterMapOf(q) ==
    IF q = <<>> THEN <<>>
    ELSE UnionIterMapFold(Tail(q), Some(Head(q)), {}, None)

RECURSIVE TaggedItemByItem(_, _)
\* The items of the list q with the priority numbers UnsortedDisjointMap
\* gives them, from p on, none merged; an inverted range uses up its number
\* and is dropped.
TaggedItemByItem(q, p) ==
    IF q = <<>> THEN <<>>
    ELSE (IF Head(q).start > Head(q).end THEN <<>> ELSE <<Tagged(Head(q), p)>>)
         \o (IF Tail(q) = <<>> THEN <<>>
             ELSE TaggedItemByItem(Tail(q), Unwrap(NextPriority(p))))

\* UnionIter::new(Merge::new(a, b)) and UnionIter::new(KMerge::new(..)):
\* UnionIter over the Merge of two
\* SortedDisjoint streams and over the KMerge of NumStreams of them. The
\* streams hold no inverted range, so that branch is never taken.
InitUnionOver(kind) ==
    /\ T = IntegerType(MinValue, MaxValueList)
    /\ mode = "UnionIter"
    /\ iter = NewIter(kind)
    /\ option_range = None
    /\ start_not = None
    /\ next_time_return_none = FALSE
    /\ NoSweep
    /\ out = <<>>
    /\ finished = FALSE
    /\ overflow = FALSE
    /\ NoNorm
    /\ NoCheck

UnionOfMergeNext ==
    \/ UnionIter_Exhausted
    \/ UnionIter_Adopt
    \/ UnionIter_Extend
    \/ UnionIter_Emit

SpecUnionMerge ==
    (InitUnionOver("Merge") \/ InitUnionOver("KMerge")) /\ [][UnionOfMergeNext]_vars

\* SymDiffIter::new2: SymDiffIter over the Merge of two SortedDisjoint
\* streams; the constructor pulls the first item.
InitSymDiffMerge ==
    /\ T = IntegerType(MinValue, MaxValueList)
    /\ mode = "SymDiffIter"
    /\ \E p \in Pulls(NewIter("Merge")) :
        /\ iter = p.iter
        /\ next_item = p.item
    /\ workspace = <<>>
    /\ workspace_next_end = None
    /\ gather = None
    /\ ready_to_go = None
    /\ option_range = None
    /\ start_not = None
    /\ next_time_return_none = FALSE
    /\ out = <<>>
    /\ finished = FALSE
    /\ overflow = FALSE
    /\ NoNorm
    /\ NoCheck

SpecSymDiffMerge == InitSymDiffMerge /\ [][SymDiffIterNext]_vars

\* The two places that take ranges as they come: UnionIter over a
\* SortedStarts upstream and the from_iter pipeline over a list in any order.
IngestNext == UnionIterNext \/ UnsortedDisjointNext

SpecIngest == (InitUnion \/ InitFromIter) /\ [][IngestNext]_vars

\* Either operator of the set flavor: UnionIter over any SortedStarts
\* upstream (the SortedDisjoint ones among them), NotIter over a
\* SortedDisjoint one.
SetOpsNext == UnionIterNext \/ NotIterNext

SpecSetOps == (InitUnion \/ InitNot) /\ [][SetOpsNext]_vars

\* ------------------------------------------------- CheckSortedDisjointMap
\* The iterator CheckSortedDisjointMap wraps: any iterator of (range, value)
\* items, which need not be fused; returned is everything its next() has
\* returned so far, the Nones included, and yielded the items among them.
NewUncheckedIter ==
    [kind |-> "UncheckedMap", yielded |-> <<>>, done |-> FALSE, returned |-> <<>>]

UncheckedItems(it) ==
    IF Len(it.yielded) >= MaxItems THEN {} ELSE AllRangeValues

UncheckedYield(it, item) ==
    [it EXCEPT !.yielded = Append(@, item), !.returned = Append(@, Some(item))]

UncheckedNone(it) ==
    [it EXCEPT !.done = TRUE, !.returned = Append(@, None)]

\* sorted_disjoint_map.rs:1027-1040: the first assertion that fails on an
\* item arriving after the item previous, None when all of them hold.
CheckFailedAssertIgnoresValues(prev, item) ==
    IF ~(item.start <= item.end) THEN Some("Start must be <= end.")
    ELSE IF ~(item.end <= safe_max_value) THEN Some("End must be <= T::safe_max_value()")
    ELSE IF ~(prev.end < item.start) THEN Some("Ranges must be disjoint and sorted")
    ELSE None
CheckFailedAssert(prev, item) ==
    IF ~(item.start <= item.end) THEN Some("Start must be <= end.")
    ELSE IF ~(item.end <= safe_max_value) THEN Some("End must be <= T::safe_max_value()")
    ELSE IF ~(prev.end < item.start) THEN Some("Ranges must be disjoint and sorted")
    ELSE IF add_one(prev.end) = item.start /\ prev.value = item.value
         THEN Some("Touching ranges must have different values")
    ELSE None

CheckUnchanged ==
    UNCHANGED <<T, normVars, mode, option_range, start_not, next_time_return_none,
                sweepVars, overflow>>

\* The wrapped iterator returns None: remember it and return None.
Check_SeenNone ==
    /\ mode = "CheckSortedDisjointMap"
    /\ panicked = None
    /\ Len(iter.returned) <= MaxItems
    /\ iter' = UncheckedNone(iter)
    /\ seen_none' = TRUE
    /\ finished' = TRUE
    /\ UNCHANGED <<previous, panicked, out>>
    /\ CheckUnchanged

\* An item arrives after a None: the first assertion fails.
Check_ValueAfterNone ==
    /\ mode = "CheckSortedDisjointMap"
    /\ panicked = None
    /\ seen_none
    /\ \E item \in UncheckedItems(iter) :
        /\ iter' = UncheckedYield(iter, item)
    /\ panicked' = Some("A value must not be returned after None")
    /\ UNCHANGED <<previous, seen_none, finished, out>>
    /\ CheckUnchanged

\* No previous item: keep a clone of the item and return it.
Check_First ==
    /\ mode = "CheckSortedDisjointMap"
    /\ panicked = None
    /\ ~seen_none
    /\ previous = None
    /\ \E item \in UncheckedItems(iter) :
        /\ iter' = UncheckedYield(iter, item)
        /\ previous' = Some(item)
        /\ out' = Append(out, item)
    /\ UNCHANGED <<seen_none, finished, panicked>>
    /\ CheckUnchanged

\* One of the assertions on the item and the previous one fails; previous
\* has been taken.
Check_Panic ==
    /\ mode = "CheckSortedDisjointMap"
    /\ panicked = None
    /\ ~seen_none
    /\ previous # None
    /\ \E item \in UncheckedItems(iter) :
        /\ CheckFailedAssert(Unwrap(previous), item) # None
        /\ iter' = UncheckedYield(iter, item)
        /\ panicked' = CheckFailedAssert(Unwrap(previous), item)
    /\ previous' = None
    /\ UNCHANGED <<seen_none, finished, out>>
    /\ CheckUnchanged

\* Every assertion holds: the item becomes the previous one and is returned.
Check_Pass ==
    /\ mode = "CheckSortedDisjointMap"
    /\ panicked = None
    /\ ~seen_none
    /\ previous # None
    /\ \E item \in UncheckedItems(iter) :
        /\ CheckFailedAssert(Unwrap(previous), item) = None
        /\ iter' = UncheckedYield(iter, item)
        /\ previous' = Some(item)
        /\ out' = Append(out, item)
    /\ UNCHANGED <<seen_none, finished, panicked>>
    /\ CheckUnchanged

CheckSortedDisjointMapNext ==
    \/ Check_SeenNone
    \/ Check_ValueAfterNone
    \/ Check_First
    \/ Check_Panic
    \/ Check_Pass

\* CheckSortedDisjointMap::new.
InitCheck ==
    /\ T = IntegerType(MinValue, MaxValueMap)
    /\ mode = "CheckSortedDisjointMap"
    /\ iter = NewUncheckedIter
    /\ previous = None
    /\ seen_none = FALSE
    /\ panicked = None
    /\ option_range = None
    /\ start_not = None
    /\ next_time_return_none = FALSE
    /\ NoSweep
    /\ out = <<>>
    /\ finished = FALSE
    /\ overflow = FALSE
    /\ NoNorm

SpecCheck == InitCheck /\ [][CheckSortedDisjointMapNext]_vars

\* ------------------------------------------------- SortedDisjointMap::equal
\* A sequence a SortedDisjointMap iterator can give: non-empty ranges in
\* order, apart or touching with different values.
IsSortedDisjointMapSeq(q) ==
    /\ \A i \in 1..Len(q) : q[i].start <= q[i].end
    /\ \A i \in 1..(Len(q) - 1) :
        /\ q[i].end < q[i + 1].start
        /\ q[i].end + 1 = q[i + 1].start => q[i].value # q[i + 1].value

\* Every such sequence of n items, built item by item.
RECURSIVE SortedDisjointMapSeqsOfLen(_)
SortedDisjointMapSeqsOfLen(n) ==
    IF n = 0 THEN {<<>>}
    ELSE UNION {{Append(q, x) : x \in {x \in AllRangeValues :
                                           IsSortedDisjointMapSeq(Append(q, x))}} :
                q \in SortedDisjointMapSeqsOfLen(n - 1)}

SortedDisjointMapSeqs == UNION {SortedDisjointMapSeqsOfLen(n) : n \in 0..MaxItems}

\* sorted_disjoint_map.rs:510-512, the test on a pair of items.
EqualPairRangesOnly(x, y) == x.start = y.start /\ x.end = y.end
EqualPair(x, y) == x.start = y.start /\ x.end = y.end /\ x.value = y.value

\* zip_longest over self and other: pos pairs have been consumed.
NewZipLongest(a, b) == [kind |-> "ZipLongest", self |-> a, other |-> b, pos |-> 0]

EqualUnchanged ==
    UNCHANGED <<T, checkVars, normVars, mode, option_range, start_not,
                next_time_return_none, sweepVars, overflow>>

\* Both sequences have a next item: all() goes on when the pair is equal
\* and stops with false otherwise.
Equal_Both ==
    /\ mode = "equal"
    /\ ~finished
    /\ iter.pos < Len(iter.self)
    /\ iter.pos < Len(iter.other)
    /\ iter' = [iter EXCEPT !.pos = @ + 1]
    /\ IF EqualPair(iter.self[iter.pos + 1], iter.other[iter.pos + 1])
       THEN UNCHANGED <<out, finished>>
       ELSE out' = <<FALSE>> /\ finished' = TRUE
    /\ EqualUnchanged

\* Only one of the sequences has a next item: false.
Equal_LeftOrRight ==
    /\ mode = "equal"
    /\ ~finished
    /\ (iter.pos < Len(iter.self)) # (iter.pos < Len(iter.other))
    /\ iter' = [iter EXCEPT !.pos = @ + 1]
    /\ out' = <<FALSE>>
    /\ finished' = TRUE
    /\ EqualUnchanged

\* Both sequences are exhausted: all() returns true.
Equal_End ==
    /\ mode = "equal"
    /\ ~finished
    /\ iter.pos >= Len(iter.self)
    /\ iter.pos >= Len(iter.other)
    /\ out' = <<TRUE>>
    /\ finished' = TRUE
    /\ UNCHANGED iter
    /\ EqualUnchanged

EqualNext == Equal_Both \/ Equal_LeftOrRight \/ Equal_End

\* a.equal(b) for two SortedDisjointMap sequences; out will hold the value
\* returned.
InitEqual ==
    /\ T = IntegerType(MinValue, MaxValueMap)
    /\ mode = "equal"
    /\ \E a \in SortedDisjointMapSeqs, b \in SortedDisjointMapSeqs :
        iter = NewZipLongest(a, b)
    /\ option_range = None
    /\ start_not = None
    /\ next_time_return_none = FALSE
    /\ NoSweep
    /\ out = <<>>
    /\ finished = FALSE
    /\ overflow = FALSE
    /\ NoNorm
    /\ NoCheck

SpecEqual == InitEqual /\ [][EqualNext]_vars

\* ------------------------------------------------------- output shape
\* Sorted-Disjoint: non-empty ranges, each starting after a gap.
IsSortedDisjoint(q) ==
    /\ \A i \in 1..Len(q) : q[i].start <= q[i].end
    /\ \A i \in 1..(Len(q) - 1) : q[i].end + 1 < q[i + 1].start

\* ------------------------------------- Merge, KMerge, MergeMap, KMergeMap
\* Every Sorted-Disjoint sequence of n ranges, built range by range.
RECURSIVE SortedDisjointSeqsOfLen(_)
SortedDisjointSeqsOfLen(n) ==
    IF n = 0 THEN {<<>>}
    ELSE UNION {{Append(q, r) : r \in {r \in NonEmptyRanges :
                                           IsSortedDisjoint(Append(q, r))}} :
                q \in SortedDisjointSeqsOfLen(n - 1)}

IsMapKind(kind) == kind \in {"MergeMap", "KMergeMap"}

\* The input streams of a merge: k whole sequences holding at most budget
\* items in all, SortedDisjoint or SortedDisjointMap by the kind of merge.
RECURSIVE MergeInputs(_, _, _)
MergeInputs(kind, k, budget) ==
    IF k = 0 THEN {<<>>}
    ELSE UNION {{<<s>> \o t : t \in MergeInputs(kind, k - 1, budget - Len(s))} :
                s \in UNION {IF IsMapKind(kind) THEN SortedDisjointMapSeqsOfLen(n)
                                                ELSE SortedDisjointSeqsOfLen(n) :
                             n \in 0..budget}}

\* SetPriorityMap::new(stream, i): an item of stream i as the merge sees
\* it; a plain range is passed as it is.
SetPriority(kind, x, i) ==
    IF IsMapKind(kind) THEN Prio(x.start, x.end, x.value, i) ELSE x

\* The merge over the whole streams inputs, pos[i] items of stream i taken.
NewMerge(kind, inputs) ==
    [kind |-> kind, inputs |-> inputs, pos |-> [i \in DOMAIN inputs |-> 0]]

HasHead(it, i) == it.pos[i] < Len(it.inputs[i])
HeadOf(it, i) == SetPriority(it.kind, it.inputs[i][it.pos[i] + 1], i - 1)
TakeFrom(it, i) == [it EXCEPT !.pos[i] = @ + 1]

MergeUnchanged ==
    UNCHANGED <<T, checkVars, normVars, mode, option_range, start_not,
                next_time_return_none, sweepVars, overflow>>

\* merge_by: the left head is yielded when the closure holds for the two
\* heads or the right stream is exhausted.
MergeBy_Left ==
    /\ mode = "merge"
    /\ iter.kind \in {"Merge", "MergeMap"}
    /\ HasHead(iter, 1)
    /\ HasHead(iter, 2) => MergeByFirst(HeadOf(iter, 1), HeadOf(iter, 2))
    /\ out' = Append(out, HeadOf(iter, 1))
    /\ iter' = TakeFrom(iter, 1)
    /\ UNCHANGED finished
    /\ MergeUnchanged

\* merge_by: the right head is yielded otherwise.
MergeBy_Right ==
    /\ mode = "merge"
    /\ iter.kind \in {"Merge", "MergeMap"}
    /\ HasHead(iter, 2)
    /\ HasHead(iter, 1) => ~MergeByFirst(HeadOf(iter, 1), HeadOf(iter, 2))
    /\ out' = Append(out, HeadOf(iter, 2))
    /\ iter' = TakeFrom(iter, 2)
    /\ UNCHANGED finished
    /\ MergeUnchanged

\* kmerge_by: the heap yields a head that the closure puts behind no other
\* head; among heads the closure does not order, the heap decides.
KMergeBy_Pop ==
    /\ mode = "merge"
    /\ iter.kind \in {"KMerge", "KMergeMap"}
    /\ \E i \in DOMAIN iter.inputs :
        /\ HasHead(iter, i)
        /\ \A j \in DOMAIN iter.inputs :
               HasHead(iter, j) => ~MergeByFirst(HeadOf(iter, j), HeadOf(iter, i))
        /\ out' = Append(out, HeadOf(iter, i))
        /\ iter' = TakeFrom(iter, i)
    /\ UNCHANGED finished
    /\ MergeUnchanged

\* Every stream is exhausted: None.
Merge_End ==
    /\ mode = "merge"
    /\ ~finished
    /\ \A i \in DOMAIN iter.inputs : ~HasHead(iter, i)
    /\ finished' = TRUE
    /\ UNCHANGED <<iter, out>>
    /\ MergeUnchanged

MergeNext == MergeBy_Left \/ MergeBy_Right \/ KMergeBy_Pop \/ Merge_End

\* Merge::new, KMerge::new, MergeMap::new, KMergeMap::new over whole streams.
InitMerge ==
    /\ T = IntegerType(MinValue, MaxValueMap)
    /\ mode = "merge"
    /\ \E kind \in {"Merge", "KMerge", "MergeMap", "KMergeMap"} :
        \E inputs \in MergeInputs(kind, Cardinality(MergeStreams(kind)),
                                   IF IsMapKind(kind) THEN MaxItems - 1 ELSE MaxItems) :
            iter = NewMerge(kind, inputs)
    /\ option_range = None
    /\ start_not = None
    /\ next_time_return_none = FALSE
    /\ NoSweep
    /\ out = <<>>
    /\ finished = FALSE
    /\ overflow = FALSE
    /\ NoNorm
    /\ NoCheck

SpecMerge == InitMerge /\ [][MergeNext]_vars

\* ------------------------------------------- a stream that is not sorted
\* union_iter.rs:165, debug_assert!(current_start <= start): a build with
\* debug assertions stops here on an item that starts before the range in
\* progress; a build without them goes on with the other branches.
UnionIter_DebugAssertFails ==
    /\ mode = "UnionIter"
    /\ option_range # None
    /\ \E r \in UpstreamItems(iter) :
        /\ ~UnionIterSkips(r)
        /\ ~(Unwrap(option_range).start <= r.start)
        /\ iter' = Yield(iter, r)
    /\ mode' = "aborted"
    /\ panicked' = Some("assertion failed: current_start <= start")
    /\ UNCHANGED <<T, normVars, previous, seen_none, option_range, start_not,
                   next_time_return_none, sweepVars, out, finished, overflow>>

\* UnionIter, SymDiffIter or UnionIterMap built over an upstream that gives
\* its items in any order.
InitOutOfOrder ==
    /\ \E m \in {"UnionIter", "SymDiffIter", "UnionIterMap"} :
        /\ mode = m
        /\ T = IntegerType(MinValue, IF m = "UnionIterMap" THEN MaxValueMap
                                     ELSE MaxValueList)
        /\ IF m = "UnionIter"
           THEN /\ iter = NewIter("Unsorted")
                /\ next_item = None
           ELSE \E p \in Pulls(NewIter(IF m = "SymDiffIter" THEN "UnsortedNonEmpty"
                                        ELSE "UnsortedPriority")) :
                /\ iter = p.iter
                /\ next_item = p.item
        /\ workspace = IF m = "UnionIterMap" THEN {} ELSE <<>>
    /\ workspace_next_end = None
    /\ gather = None
    /\ ready_to_go = None
    /\ option_range = None
    /\ start_not = None
    /\ next_time_return_none = FALSE
    /\ out = <<>>
    /\ finished = FALSE
    /\ overflow = FALSE
    /\ NoNorm
    /\ NoCheck

OutOfOrderNext ==
    \/ UnionIterNext
    \/ UnionIter_DebugAssertFails
    \/ SymDiffIterNext
    \/ UnionIterMapNext

SpecOutOfOrder == InitOutOfOrder /\ [][OutOfOrderNext]_vars

\* ------------------------------------------------------------ construction
\* Before the operator is built: the upstream exists and has not been
\* called. The upstream's contract says which operator will be built on it.
InitUnbuilt ==
    /\ mode = "new"
    /\ \E kind \in {"SortedStarts", "SortedDisjoint", "SortedStartsNonEmpty",
                    "PrioritySortedStarts"} :
        /\ iter = NewIter(kind)
        /\ T = IntegerType(MinValue, IF kind = "PrioritySortedStarts"
                                     THEN MaxValueMap ELSE MaxValue)
    /\ option_range = None
    /\ start_not = None
    /\ next_time_return_none = FALSE
    /\ NoSweep
    /\ out = <<>>
    /\ finished = FALSE
    /\ overflow = FALSE
    /\ NoNorm
    /\ NoCheck

\* What no constructor writes.
NewUnchanged ==
    UNCHANGED <<T, checkVars, normVars, option_range, start_not, next_time_return_none,
                workspace_next_end, gather, ready_to_go, out, finished, overflow>>

\* UnionIter::new: the upstream is stored, option_range is None.
UnionIter_New ==
    /\ mode = "new"
    /\ iter.kind = "SortedStarts"
    /\ mode' = "UnionIter"
    /\ UNCHANGED <<iter, next_item, workspace>>
    /\ NewUnchanged

\* NotIter::new: the upstream is stored, start_not is the minimum.
NotIter_New ==
    /\ mode = "new"
    /\ iter.kind = "SortedDisjoint"
    /\ mode' = "NotIter"
    /\ start_not' = min_value2
    /\ UNCHANGED <<T, checkVars, normVars, iter, option_range, next_time_return_none,
                   sweepVars, out, finished, overflow>>

\* SymDiffIter::new: let item = iter.next(); next_item is that item and
\* the workspace an empty Vec.
SymDiffIter_New ==
    /\ mode = "new"
    /\ iter.kind = "SortedStartsNonEmpty"
    /\ mode' = "SymDiffIter"
    /\ \E p \in Pulls(iter) :
        /\ iter' = p.iter
        /\ next_item' = p.item
    /\ workspace' = <<>>
    /\ NewUnchanged

\* UnionIterMap::new: let item = iter.next(); next_item is that item and
\* the workspace an empty heap.
UnionIterMap_New ==
    /\ mode = "new"
    /\ iter.kind = "PrioritySortedStarts"
    /\ mode' = "UnionIterMap"
    /\ \E p \in Pulls(iter) :
        /\ iter' = p.iter
        /\ next_item' = p.item
    /\ workspace' = {}
    /\ NewUnchanged

BuildAndRunNext ==
    \/ UnionIter_New
    \/ NotIter_New
    \/ SymDiffIter_New
    \/ UnionIterMap_New
    \/ UnionIterNext
    \/ NotIterNext
    \/ SymDiffIterNext
    \/ UnionIterMapNext

SpecBuildAndRun == InitUnbuilt /\ [][BuildAndRunNext]_vars

\* ------------------------------------------------------------------ claims
\* ---------------------------------------------------------------- C1
\* C1: when UnionIter has returned None, the integers covered by the ranges
\* it yielded are exactly the integers covered by the non-inverted ranges
\* of its start-sorted input.
C1_UnionCoversInput ==
    (mode = "UnionIter" /\ finished) => CoverSeq(out) = CoverSeq(iter.yielded)

\* An input of three ranges with an inverted one and an overlap, consumed whole.
C1_Witness ==
    /\ mode = "UnionIter"
    /\ finished
    /\ Len(iter.yielded) = 3
    /\ \E i \in 1..3 : iter.yielded[i].start > iter.yielded[i].end
    /\ \E i \in 1..2 : /\ iter.yielded[i].start <= iter.yielded[i].end
                       /\ iter.yielded[i + 1].start <= iter.yielded[i].end
                       /\ iter.yielded[i + 1].end > iter.yielded[i].end
    /\ out # <<>>

\* ---------------------------------------------------------------- C2
\* C2: at every moment the ranges UnionIter has yielded, followed by the
\* range in progress, form a Sorted-Disjoint sequence: non-empty ranges,
\* consecutive ones separated by a gap (e1 + 1 < s2); two touching inputs
\* [a,b], [b+1,c] therefore come out as the one range [a,c].
C2_UnionOutputSortedDisjoint ==
    mode = "UnionIter" =>
        /\ IsSortedDisjoint(out \o option_range)
        /\ (finished /\ Len(iter.yielded) = 2
              /\ iter.yielded[1].start <= iter.yielded[1].end
              /\ iter.yielded[2].start = iter.yielded[1].end + 1
              /\ iter.yielded[2].start <= iter.yielded[2].end)
           => out = <<Rng(iter.yielded[1].start, iter.yielded[2].end)>>

\* [a,b] and [b+1,c] were fed and came out as [a,c].
C2_Witness ==
    /\ mode = "UnionIter"
    /\ finished
    /\ Len(iter.yielded) = 2
    /\ iter.yielded[1].start <= iter.yielded[1].end
    /\ iter.yielded[2].start = iter.yielded[1].end + 1
    /\ iter.yielded[2].start <= iter.yielded[2].end
    /\ Len(out) = 1

\* ---------------------------------------------------------------- C3
\* C3: when NotIter has returned None over a Sorted-Disjoint input, the
\* ranges it yielded cover exactly the integers of [min,max] that no input
\* range covers; the empty input gives the single range [min,max] and the
\* input [min,max] gives no range.
C3_NotIsComplement ==
    (mode = "NotIter" /\ finished) =>
        /\ CoverSeq(out) = Domain \ CoverSeq(iter.yielded)
        /\ iter.yielded = <<>> => out = <<Rng(min_value2, max_value2)>>
        /\ iter.yielded = <<Rng(min_value2, max_value2)>> => out = <<>>

\* An input of two ranges with gaps before, between and after them.
C3_Witness ==
    /\ mode = "NotIter"
    /\ finished
    /\ Len(iter.yielded) = 2
    /\ Len(out) = 2
    /\ iter.yielded[2].end = max_value2

\* --------------------------------------------------------------- C10
\* C10: over a Sorted-Disjoint input, ranges that start at min or end at
\* max included, neither UnionIter nor NotIter ever evaluates end + 1 with
\* end = max or start - 1 with start = min.
C10_NoOverflowSetOps == ~overflow

\* Both boundary cases were consumed: a range from min and a range to max.
C10_Witness ==
    /\ finished
    /\ Len(iter.yielded) = 2
    /\ iter.yielded[1].start = min_value2
    /\ iter.yielded[2].end = max_value2

\* ---------------------------------------------------------------- C4
\* The number of ranges of q that cover x.
Coverage(q, x) == Cardinality({i \in 1..Len(q) : x \in Cover(q[i])})

Covering(q, x) == {i \in 1..Len(q) : q[i].start <= x /\ x <= q[i].end}
BestCovering(q, x) ==
    CHOOSE i \in Covering(q, x) :
        \A j \in Covering(q, x) : q[i].priority <= q[j].priority

\* C5: when UnionIterMap has returned None over a start-sorted input of
\* non-empty ranges with distinct priority numbers, exactly the covered
\* coordinates are covered by the output, each by one output item, whose
\* value is that of the covering input item with the lowest priority number.
C5_MapUnionBestPriorityWins ==
    (mode = "UnionIterMap" /\ finished) =>
        \A x \in Domain :
            IF Covering(iter.yielded, x) = {}
            THEN Covering(out, x) = {}
            ELSE /\ Cardinality(Covering(out, x)) = 1
                 /\ \A i \in Covering(out, x) :
                        out[i].value = iter.yielded[BestCovering(iter.yielded, x)].value

\* Two overlapping items with different values, the later one better, and
\* the output shows both values.
C5_Witness ==
    /\ mode = "UnionIterMap"
    /\ finished
    /\ \E i, j \in 1..Len(iter.yielded) :
        /\ i < j
        /\ iter.yielded[j].priority < iter.yielded[i].priority
        /\ iter.yielded[j].value # iter.yielded[i].value
        /\ iter.yielded[j].start <= iter.yielded[i].end
        /\ iter.yielded[j].start > iter.yielded[i].start
    /\ Len(out) >= 2

\* ---------------------------------------------------------------- C6
\* sorted_disjoint_map.rs:1014-1043: CheckSortedDisjointMap panics on item i
\* of the sequence (the first item is handed on unchecked).
CheckSortedDisjointMapPanicsAt(q, i) ==
    /\ i > 1
    /\ \/ ~(q[i].start <= q[i].end)
       \/ ~(q[i].end <= safe_max_value)
       \/ ~(q[i - 1].end < q[i].start)
       \/ (q[i - 1].end + 1 = q[i].start /\ q[i - 1].value = q[i].value)

\* C6: the items UnionIterMap has yielded, followed by the item ready to go
\* and the gathered one, always form a canonical sequence: every range has
\* start <= end, each starts after the one before it ends, two touching
\* ranges carry different values, and CheckSortedDisjointMap passes it.
C6_MapUnionOutputCanonical ==
    mode = "UnionIterMap" =>
        LET q == out \o ready_to_go \o gather
        IN  /\ \A i \in 1..Len(q) : q[i].start <= q[i].end
            /\ \A i \in 1..(Len(q) - 1) :
                /\ q[i].end < q[i + 1].start
                /\ q[i].end + 1 = q[i + 1].start => q[i].value # q[i + 1].value
            /\ \A i \in 1..Len(q) : ~CheckSortedDisjointMapPanicsAt(q, i)

\* The output holds two touching ranges of different values, and two input
\* items of equal value were gathered into one range.
C6_Witness ==
    /\ mode = "UnionIterMap"
    /\ finished
    /\ \E i \in 1..(Len(out) - 1) : out[i].end + 1 = out[i + 1].start
    /\ \E i \in 1..Len(out) : \A j \in 1..Len(iter.yielded) :
           iter.yielded[j].value = out[i].value =>
               (iter.yielded[j].start > out[i].start \/ iter.yielded[j].end < out[i].end)

\* ---------------------------------------------------------------- C9
\* The streams of the merge that cover x, by position.
StreamsCovering(q, x) == {q[i].priority : i \in Covering(q, x)}
Least(S) == CHOOSE n \in S : \A m \in S : n <= m
StreamValueAt(q, s, x) ==
    q[CHOOSE i \in Covering(q, x) : q[i].priority = s].value

\* C9: when the union over a merge of Sorted-Disjoint map streams has
\* returned None, the value of the output at each covered coordinate is the
\* value of the covering stream with the smallest position; for MergeMap
\* (left 0, right 1) that is the left stream's value wherever both cover.
C9_StreamPositionDecides ==
    (mode = "UnionIterMap" /\ finished /\ iter.kind \in {"MergeMap", "KMergeMap"}) =>
        \A x \in Domain :
            LET who == StreamsCovering(iter.yielded, x)
            IN  /\ who = {} => Covering(out, x) = {}
                /\ who # {} =>
                    /\ Covering(out, x) # {}
                    /\ \A i \in Covering(out, x) :
                        out[i].value = StreamValueAt(iter.yielded, Least(who), x)
                /\ (iter.kind = "MergeMap" /\ who = {0, 1}) =>
                    \A i \in Covering(out, x) :
                        out[i].value = StreamValueAt(iter.yielded, 0, x)

\* A MergeMap whose two streams start at one coordinate with different
\* values, the right one reaching further, consumed whole.
C9_Witness ==
    /\ mode = "UnionIterMap"
    /\ finished
    /\ iter.kind = "MergeMap"
    /\ \E i, j \in 1..Len(iter.yielded) :
        /\ iter.yielded[i].priority = 1
        /\ iter.yielded[j].priority = 0
        /\ iter.yielded[i].start = iter.yielded[j].start
        /\ iter.yielded[i].end > iter.yielded[j].end
        /\ iter.yielded[i].value # iter.yielded[j].value
    /\ Len(out) = 2

\* ---------------------------------------------------------------- C7
\* The ranges of a range set holding the integers S: the maximal runs of S,
\* in order.
RangesOf(S) ==
    LET starts == {x \in S : (x - 1) \notin S}
        endOf(s) == CHOOSE e \in S :
                        /\ e >= s
                        /\ (e + 1) \notin S
                        /\ \A y \in s..e : y \in S
        nth(i) == CHOOSE s \in starts : Cardinality({y \in starts : y < s}) = i - 1
    IN  [i \in 1..Cardinality(starts) |-> Rng(nth(i), endOf(nth(i)))]

RECURSIVE InsertedOneAtATime(_)
\* The ranges of the range set after inserting the ranges of q, in order,
\* into an empty range set.
InsertedOneAtATime(q) ==
    IF q = <<>> THEN <<>>
    ELSE RangesOf(CoverSeq(InsertedOneAtATime(SubSeq(q, 1, Len(q) - 1)))
                  \cup Cover(q[Len(q)]))

\* C7: when the UnionIter built from a list of ranges in any order through
\* UnsortedDisjoint and the sort by start has returned None, the sequence
\* it yielded is the sequence of ranges of the range set the same ranges
\* give when inserted one at a time.
C7_FromIterEqualsInserts ==
    (mode = "UnionIter" /\ finished /\ iter.kind = "Vec") =>
        out = InsertedOneAtATime(iter.source)

\* A list out of order, with an inverted range and a range that joins two
\* others, whose normalization handed more than one range to the sort.
C7_Witness ==
    /\ mode = "UnionIter"
    /\ finished
    /\ iter.kind = "Vec"
    /\ Len(iter.source) = 3
    /\ iter.source[1].start > iter.source[2].end + 1
    /\ iter.source[2].start <= iter.source[2].end
    /\ Len(iter.yielded) = 2
    /\ Len(out) = 1

\* ---------------------------------------------------------------- C8
\* The earliest item of the list q that covers x.
EarliestCovering(q, x) == CHOOSE i \in Covering(q, x) : \A j \in Covering(q, x) : i <= j

\* C8: when the UnionIterMap built from a list of (range, value) pairs in
\* any order through normalization and the sort by start has returned None,
\* the value of the output at every covered coordinate is the value of the
\* earliest item of the list that covers it, and touching ranges of the
\* output carry different values.
C8_EarliestCoveringItemWins ==
    (mode = "UnionIterMap" /\ finished /\ iter.kind = "Vec") =>
        /\ \A x \in Domain :
            IF Covering(iter.source, x) = {}
            THEN Covering(out, x) = {}
            ELSE /\ Covering(out, x) # {}
                 /\ \A i \in Covering(out, x) :
                      out[i].value = iter.source[EarliestCovering(iter.source, x)].value
        /\ \A i \in 1..(Len(out) - 1) :
            out[i].end + 1 = out[i + 1].start => out[i].value # out[i + 1].value

\* ---------------------------------------------------------------- C16
\* How many ranges of q contain the integer x.
CountContaining(q, x) ==
    Cardinality({i \in 1..Len(q) : q[i].start <= x /\ x <= q[i].end})

\* C16: at every moment the ranges NotIter has yielded over a Sorted-Disjoint
\* input form a Sorted-Disjoint sequence (start <= end, e1 + 1 < s2), and the
\* minimum and the maximum of the type each lie in at most one of them.
C16_NotOutputSortedDisjoint ==
    mode = "NotIter" =>
        /\ IsSortedDisjoint(out)
        /\ CountContaining(out, min_value2) <= 1
        /\ CountContaining(out, max_value2) <= 1

\* NotIter has finished with two gaps, the first from the minimum and the
\* last up to the maximum.
C16_Witness ==
    /\ mode = "NotIter"
    /\ finished
    /\ Len(out) = 2
    /\ out[1].start = min_value2
    /\ out[2].end = max_value2

\* ---------------------------------------------------------------- C17
\* C17: at every moment the ranges SymDiffIter has yielded over a start-sorted
\* stream of non-empty ranges, followed by the range ready to go and the
\* gathered range, form a Sorted-Disjoint sequence; contiguous segments of odd
\* coverage come out as one range, so [0,0], [0,1], [2,max] gives [1,max].
C17_SymDiffOutputSortedDisjoint ==
    mode = "SymDiffIter" =>
        /\ IsSortedDisjoint(out \o ready_to_go \o gather)
        /\ (finished /\ iter.yielded = <<Rng(0, 0), Rng(0, 1), Rng(2, max_value2)>>)
           => out = <<Rng(1, max_value2)>>

\* The input [0,0], [0,1], [2,max], whose odd segments [1,1] and [2,max] are
\* contiguous, has been consumed whole.
C17_Witness ==
    /\ mode = "SymDiffIter"
    /\ finished
    /\ iter.yielded = <<Rng(0, 0), Rng(0, 1), Rng(2, max_value2)>>
    /\ Len(out) = 1

\* ---------------------------------------------------------------- C15
\* C15: when UnionIter has returned None over an input that is already
\* Sorted-Disjoint, the ranges it yielded are that input, unchanged; and
\* UnionIter over its own output, whatever the start-sorted input was,
\* yields that output again.
C15_UnionIdempotent ==
    (mode = "UnionIter" /\ finished) =>
        /\ IsSortedDisjoint(iter.yielded) => out = iter.yielded
        /\ UnionIterOf(out) = out

\* A Sorted-Disjoint input of three ranges has been consumed whole.
C15_Witness ==
    /\ mode = "UnionIter"
    /\ finished
    /\ Len(iter.yielded) = 3
    /\ IsSortedDisjoint(iter.yielded)
    /\ Len(out) = 3

\* ---------------------------------------------------------------- C19
\* The item at position i of q is an inverted range.
InvertedAt(q, i) == q[i].start > q[i].end

\* C19: CheckSortedDisjointMap has panicked whenever the wrapped iterator has
\* handed it a range with start > end, at whatever position, the first
\* included.
C19_InvertedAlwaysPanics ==
    mode = "CheckSortedDisjointMap" =>
        \A i \in 1..Len(iter.yielded) :
            InvertedAt(iter.yielded, i) => panicked # None

\* The same for every position but the first, which next() returns before
\* its assertions.
C19_InvertedAfterFirstPanics ==
    mode = "CheckSortedDisjointMap" =>
        \A i \in 2..Len(iter.yielded) :
            InvertedAt(iter.yielded, i) => panicked # None

\* An inverted first item has been returned without a panic.
C19_InvertedFirstReturned ==
    /\ mode = "CheckSortedDisjointMap"
    /\ Len(iter.yielded) = 1
    /\ InvertedAt(iter.yielded, 1)
    /\ panicked = None
    /\ out = iter.yielded

\* ---------------------------------------------------------------- C20
\* The i-th item of the wrapped iterator arrived after it had returned None.
ArrivedAfterNone(it, i) ==
    \E j, k \in 1..Len(it.returned) :
        /\ j < k
        /\ it.returned[j] = None
        /\ it.returned[k] # None
        /\ Cardinality({m \in 1..k : it.returned[m] # None}) = i

\* The i-th item of q starts at or before the end of the one before it, or
\* one past that end with an equal value.
OutOfPlaceAt(q, i) ==
    /\ i > 1
    /\ \/ q[i].start <= q[i - 1].end
       \/ (q[i].start = q[i - 1].end + 1 /\ q[i].value = q[i - 1].value)

C20_WitnessPanic ==
    /\ mode = "CheckSortedDisjointMap"
    /\ panicked = Some("Touching ranges must have different values")
    /\ Len(out) = 1

\* ---------------------------------------------------------------- C18
\* The list q without its inverted ranges.
NonInverted(q) == SelectSeq(q, LAMBDA r : r.start <= r.end)

\* This step took an inverted range from the upstream.
TookInverted ==
    /\ mode' = mode
    /\ Len(iter'.yielded) = Len(iter.yielded) + 1
    /\ LastYielded(iter').start > LastYielded(iter').end

\* What has been yielded, followed by the pending range, is what the
\* operator gives over the input so far with the inverted ranges removed.
InvertedMakeNoDifference ==
    /\ mode = "UnsortedDisjoint" =>
         out \o option_range = UnsortedDisjointOf(NonInverted(iter.yielded))
    /\ (mode = "UnionIter" /\ iter.kind = "SortedStarts") =>
         out \o option_range = UnionIterOf(NonInverted(iter.yielded))

\* C18: UnsortedDisjoint and UnionIter drop a range with start > end
\* silently: the step that takes it sets no error and leaves the pending
\* range and the output as they were, and the output is at every moment,
\* the end included, the output for the same input without those ranges.
C18_InvertedDroppedSilently ==
    /\ [][TookInverted => (UNCHANGED <<option_range, out, overflow, panicked>>)]_vars
    /\ []InvertedMakeNoDifference

\* UnionIter has finished over an input whose middle range is inverted and
\* whose other two ranges were merged.
C18_Witness ==
    /\ mode = "UnionIter"
    /\ iter.kind = "SortedStarts"
    /\ finished
    /\ Len(iter.yielded) = 3
    /\ iter.yielded[2].start > iter.yielded[2].end
    /\ Len(NonInverted(iter.yielded)) = 2
    /\ Len(out) = 1

\* ---------------------------------------------------------------- C11
\* C11: when NotIter has returned None over a Sorted-Disjoint input S,
\* NotIter over the ranges it yielded gives S again, range for range; the
\* empty S and the S that is the one range [min,max] are among the cases.
C11_NotNotIsIdentity ==
    (mode = "NotIter" /\ finished) =>
        /\ NotIterOf(out) = iter.yielded
        /\ iter.yielded = <<>> => NotIterOf(out) = <<>>
        /\ iter.yielded = <<Rng(min_value2, max_value2)>> =>
               NotIterOf(<<>>) = <<Rng(min_value2, max_value2)>>

\* An input of two ranges, the first from the minimum and the second up to
\* the maximum, whose complement is the one gap between them.
C11_Witness ==
    /\ mode = "NotIter"
    /\ finished
    /\ Len(iter.yielded) = 2
    /\ iter.yielded[1].start = min_value2
    /\ iter.yielded[2].end = max_value2
    /\ Len(out) = 1
    /\ NotIterOf(out) = iter.yielded

\* ---------------------------------------------------------------- C12
\* The sequence q is the canonical form of the set S of integers: the one
\* Sorted-Disjoint sequence that covers exactly S.
IsCanonicalFor(q, S) == IsSortedDisjoint(q) /\ CoverSeq(q) = S

\* C12: when UnionIter over Merge(A, B) has returned None, NotIter over the
\* ranges it yielded gives exactly the canonical ranges of the integers that
\* lie both in what NotIter gives over A and in what NotIter gives over B.
C12_DeMorgan ==
    (mode = "UnionIter" /\ iter.kind = "Merge" /\ finished) =>
        LET A == StreamOf(iter, 0)
            B == StreamOf(iter, 1)
        IN  IsCanonicalFor(NotIterOf(out),
                           CoverSeq(NotIterOf(A)) \cap CoverSeq(NotIterOf(B)))

\* A and B overlap without either containing the other, and the complement
\* of their union has a range on each side.
C12_Witness ==
    /\ mode = "UnionIter"
    /\ iter.kind = "Merge"
    /\ finished
    /\ Len(StreamOf(iter, 0)) = 1
    /\ Len(StreamOf(iter, 1)) = 1
    /\ StreamOf(iter, 0)[1].start < StreamOf(iter, 1)[1].start
    /\ StreamOf(iter, 1)[1].start <= StreamOf(iter, 0)[1].end
    /\ StreamOf(iter, 0)[1].end < StreamOf(iter, 1)[1].end
    /\ Len(out) = 1
    /\ Len(NotIterOf(out)) = 2

UnionOfTwo(a, b) == UnionIterOf(MergeOf(a, b))

\* The pairwise unions of the streams 0..k, grouped from the left, and of
\* the streams k..NumStreams-1, grouped from the right.
RECURSIVE UnionFromLeft(_, _)
UnionFromLeft(it, k) ==
    IF k = 0 THEN StreamOf(it, 0)
    ELSE UnionOfTwo(UnionFromLeft(it, k - 1), StreamOf(it, k))

RECURSIVE UnionFromRight(_, _)
UnionFromRight(it, k) ==
    IF k = NumStreams - 1 THEN StreamOf(it, k)
    ELSE UnionOfTwo(StreamOf(it, k), UnionFromRight(it, k + 1))

\* C14: when UnionIter has returned None over Merge(A, B), what it yielded
\* is what UnionIter yields over Merge(B, A); when it has returned None over
\* the KMerge of the streams, what it yielded is what the pairwise unions of
\* the streams yield, grouped from the left ((A u B) u C) and grouped from
\* the right (A u (B u C)).
C14_UnionCommutesAssociates ==
    (mode = "UnionIter" /\ finished) =>
        /\ iter.kind = "Merge" =>
             /\ out = UnionOfTwo(StreamOf(iter, 0), StreamOf(iter, 1))
             /\ out = UnionOfTwo(StreamOf(iter, 1), StreamOf(iter, 0))
        /\ iter.kind = "KMerge" =>
             /\ out = UnionFromLeft(iter, NumStreams - 1)
             /\ out = UnionFromRight(iter, 0)

\* Three streams of one range each, the second bridging the other two,
\* have been merged k-way into one range.
C14_Witness ==
    /\ mode = "UnionIter"
    /\ iter.kind = "KMerge"
    /\ finished
    /\ \A i \in 0..2 : Len(StreamOf(iter, i)) = 1
    /\ StreamOf(iter, 0)[1].end < StreamOf(iter, 2)[1].start
    /\ StreamOf(iter, 1)[1].start <= StreamOf(iter, 0)[1].end
    /\ StreamOf(iter, 2)[1].start <= StreamOf(iter, 1)[1].end
    /\ Len(out) = 1

\* Two streams whose first ranges start together have been merged.
C14_WitnessTie ==
    /\ mode = "UnionIter"
    /\ iter.kind = "Merge"
    /\ finished
    /\ Len(StreamOf(iter, 0)) = 1
    /\ Len(StreamOf(iter, 1)) = 1
    /\ StreamOf(iter, 0)[1].start = StreamOf(iter, 1)[1].start
    /\ StreamOf(iter, 0)[1].end # StreamOf(iter, 1)[1].end

\* ---------------------------------------------------------------- C22
\* The sequences a and b have the same length and, position by position,
\* identical ranges and equal values.
SameItems(a, b) ==
    /\ Len(a) = Len(b)
    /\ \A i \in 1..Len(a) :
        /\ a[i].start = b[i].start
        /\ a[i].end = b[i].end
        /\ a[i].value = b[i].value

\* a is a strict prefix of b.
StrictPrefix(a, b) == Len(a) < Len(b) /\ SubSeq(b, 1, Len(a)) = a

\* C22: when equal has returned, it has returned true exactly when the two
\* sequences have the same number of items and at each position identical
\* ranges and equal values; false when one is a strict prefix of the other,
\* true for two empty sequences.
C22_EqualIsItemwise ==
    (mode = "equal" /\ finished) =>
        /\ out = <<SameItems(iter.self, iter.other)>>
        /\ (StrictPrefix(iter.self, iter.other) \/ StrictPrefix(iter.other, iter.self))
               => out = <<FALSE>>
        /\ (iter.self = <<>> /\ iter.other = <<>>) => out = <<TRUE>>

\* Two sequences with the same two ranges and another value at the second
\* have been compared.
C22_Witness ==
    /\ mode = "equal"
    /\ finished
    /\ Len(iter.self) = 2
    /\ Len(iter.other) = 2
    /\ EqualPair(iter.self[1], iter.other[1])
    /\ EqualPairRangesOnly(iter.self[2], iter.other[2])
    /\ iter.self[2].value # iter.other[2].value
    /\ out = <<FALSE>>

\* ---------------------------------------------------------------- C23
\* The upstream as it is before its first next().
UpstreamUntouched == iter.yielded = <<>> /\ ~iter.done

\* C23: building UnionIter, NotIter, SymDiffIter or UnionIterMap calls no
\* next() of the upstream: the step that builds the operator leaves the
\* upstream as it was, so an operator built and abandoned has done no
\* upstream work.
C23_ConstructionPullsNothing ==
    [][mode = "new" => UNCHANGED iter]_vars

\* The same for the two operators whose constructor only stores the upstream.
C23_UnionAndNotPullNothing ==
    [][(mode = "new" /\ iter.kind \in {"SortedStarts", "SortedDisjoint"})
           => UNCHANGED iter]_vars

\* SymDiffIter or UnionIterMap has been built, its next() has not been
\* called, and the upstream has given its first item.
C23_BuiltHasPulled ==
    /\ mode \in {"SymDiffIter", "UnionIterMap"}
    /\ out = <<>>
    /\ ~finished
    /\ Len(iter.yielded) = 1
    /\ next_item = Some(iter.yielded[1])
    /\ gather = None
    /\ ready_to_go = None
    /\ workspace \in {<<>>, {}}

\* ---------------------------------------------------------------- C21
\* The ranges yielded so far keep the output invariant of the operator.
OutputInvariantKept ==
    IF iter.kind = "UnsortedPriority"
    THEN IsSortedDisjointMapSeq(out)
    ELSE IsSortedDisjoint(out)

\* C21: UnionIter, UnionIterMap and SymDiffIter driven with a stream whose
\* starts are in any order never yield a range that breaks the
\* Sorted-Disjoint output invariant (an inverted range, or one that
\* overlaps or touches an earlier one): an assertion stops them first. Runs
\* in which a + 1 or - 1 left the domain are left aside.
C21_AbortsBeforeBadOutput ==
    (iter.kind \in {"Unsorted", "UnsortedNonEmpty", "UnsortedPriority"}
       /\ mode \in {"UnionIter", "SymDiffIter", "UnionIterMap", "aborted"}
       /\ ~overflow)
        => OutputInvariantKept

\* The same for UnionIter alone, in builds with and without the debug
\* assertion.
C21_UnionIterKeepsInvariant ==
    (iter.kind = "Unsorted" /\ mode \in {"UnionIter", "aborted"})
        => IsSortedDisjoint(out)

\* SymDiffIter has yielded an inverted range over an input whose second
\* item starts before the first, with no assertion failed.
C21_InvertedYielded ==
    /\ mode = "SymDiffIter"
    /\ iter.kind = "UnsortedNonEmpty"
    /\ ~overflow
    /\ panicked = None
    /\ Len(iter.yielded) = 2
    /\ iter.yielded[2].start < iter.yielded[1].start
    /\ \E i \in 1..Len(out) : out[i].start > out[i].end

\* UnionIterMap has yielded an inverted range in the same way.
C21_InvertedYieldedMap ==
    /\ mode = "UnionIterMap"
    /\ iter.kind = "UnsortedPriority"
    /\ ~overflow
    /\ panicked = None
    /\ \E i \in 1..Len(out) : out[i].start > out[i].end

\* ---------------------------------------------------------------- C24
\* How often the item x occurs in the sequence q, and in the first k
\* streams of inputs.
Occurrences(q, x) == Cardinality({i \in 1..Len(q) : q[i] = x})

RECURSIVE OccurrencesInStreams(_, _, _)
OccurrencesInStreams(inputs, x, k) ==
    IF k = 0 THEN 0
    ELSE Occurrences(inputs[k], x) + OccurrencesInStreams(inputs, x, k - 1)

\* The items the merge yielded with priority number p, as (range, value).
YieldedWithPriority(q, p) ==
    LET mine == SelectSeq(q, LAMBDA x : x.priority = p)
    IN  [k \in 1..Len(mine) |-> RangeValue(mine[k].start, mine[k].end, mine[k].value)]

\* C24: what Merge, KMerge, MergeMap and KMergeMap have yielded over
\* Sorted-Disjoint inputs is non-decreasing in start at every moment; when
\* they have returned None it holds every range as often as the inputs
\* together do, and in the map variants the items with priority number i
\* are the items of stream i, ranges and values unchanged and in order.
C24_MergeOnlyInterleaves ==
    mode = "merge" =>
        /\ \A i \in 1..(Len(out) - 1) : out[i].start <= out[i + 1].start
        /\ (finished /\ ~IsMapKind(iter.kind)) =>
               \A r \in NonEmptyRanges :
                   Occurrences(out, r) = OccurrencesInStreams(iter.inputs, r, Len(iter.inputs))
        /\ (finished /\ IsMapKind(iter.kind)) =>
               /\ \A i \in DOMAIN iter.inputs :
                      YieldedWithPriority(out, i - 1) = iter.inputs[i]
               /\ \A k \in 1..Len(out) : out[k].priority \in 0..(Len(iter.inputs) - 1)

\* A KMerge of three streams that all start with the same range has
\* returned None.
C24_Witness ==
    /\ mode = "merge"
    /\ iter.kind = "KMerge"
    /\ finished
    /\ Len(out) = 3
    /\ \A i \in 1..3 : Len(iter.inputs[i]) = 1 /\ iter.inputs[i] = iter.inputs[1]

\* A MergeMap has yielded an item of the right stream before one of the
\* left stream that starts with it.
C24_WitnessMap ==
    /\ mode = "merge"
    /\ iter.kind = "MergeMap"
    /\ finished
    /\ Len(out) = 2
    /\ out[1].priority = 1
    /\ out[2].priority = 0
    /\ out[1].start = out[2].start


\* ------------------------------------------------- claim C25: touch test

\* The values sub_one is applied to while the test of
\* UnsortedDisjoint::next is evaluated: `&&` and `||` evaluate their right
\* operand only when the left one does not settle the result.
UnsortedSubOneOperands(self_range, r) ==
    LET left_guard == r.start >= min_value_plus_2
        left == left_guard /\ self_range.end <= sub_one(sub_one(r.start))
        right_guard == ~left /\ self_range.start >= min_value_plus_2
    IN  (IF left_guard THEN {r.start, sub_one(r.start)} ELSE {})
        \cup (IF right_guard
              THEN {self_range.start, sub_one(self_range.start)} ELSE {})

\* Some integer lies strictly between the two ranges.
IntegerBetween(x, y) ==
    \E i \in min_value2..max_value2 : (x.end < i /\ i < y.start) \/ (y.end < i /\ i < x.start)

\* The condition as the documentation writes it, [a,b] being the range
\* held and [c,d] the one that arrives, in unbounded integer arithmetic.
RestartCondition(a, b, c, d) ==
    \/ (a >= min_value2 + 2 /\ d <= a - 2)
    \/ (c >= min_value2 + 2 /\ b <= c - 2)

\* C25: when UnsortedDisjoint has consumed two non-empty ranges [a,b] and
\* [c,d], it holds them as two ranges exactly when
\* (a >= min+2 and d <= a-2) or (c >= min+2 and b <= c-2), which is exactly
\* when some integer lies strictly between them; otherwise it holds the one
\* range [min(a,c), max(b,d)]; and the test applies sub_one to no value that
\* is the domain's minimum.
C25_TouchTest ==
    (/\ mode = "UnsortedDisjoint"
     /\ Len(iter.yielded) = 2
     /\ \A i \in 1..2 : iter.yielded[i].start <= iter.yielded[i].end)
    => LET x == iter.yielded[1]
           y == iter.yielded[2]
           held == out \o option_range
       IN  /\ RestartCondition(x.start, x.end, y.start, y.end)
                <=> IntegerBetween(x, y)
           /\ IntegerBetween(x, y) => held = <<x, y>>
           /\ ~IntegerBetween(x, y)
                => held = <<Rng(Min2(x.start, y.start), Max2(x.end, y.end))>>
           /\ min_value2 \notin UnsortedSubOneOperands(x, y)

\* Two ranges with one integer between them, the later one starting at the
\* minimum: kept as two.
C25_Witness ==
    /\ mode = "UnsortedDisjoint"
    /\ Len(iter.yielded) = 2
    /\ iter.yielded[2] = Rng(min_value2, min_value2)
    /\ iter.yielded[1] = Rng(min_value2 + 2, min_value2 + 2)
    /\ out = <<iter.yielded[1]>>
    /\ option_range = Some(iter.yielded[2])

\* Two ranges that touch, the later one starting at the minimum plus one:
\* combined.
C25_WitnessCombined ==
    /\ mode = "UnsortedDisjoint"
    /\ Len(iter.yielded) = 2
    /\ iter.yielded[1] = Rng(min_value2, min_value2)
    /\ iter.yielded[2] = Rng(min_value2 + 1, min_value2 + 2)
    /\ out = <<>>
    /\ option_range = Some(Rng(min_value2, min_value2 + 2))


\* ------------------------------------------ claim C26: priority numbers

\* The tagged items UnsortedDisjointMap has returned or holds, in the order
\* it consumed them (a merged item stands at the place of its first part).
TaggedSoFar == out \o option_priority

\* C26: in consumption order the priority numbers UnsortedDisjointMap
\* attaches ascend strictly: an item consumed earlier has a lower number
\* than any item consumed later.
C26_PrioritiesAscend ==
    mode = "UnsortedDisjointMap"
    => \A i \in 1..Len(TaggedSoFar) : \A j \in 1..Len(TaggedSoFar) :
         i < j => TaggedSoFar[i].priority < TaggedSoFar[j].priority

\* The part of C26 that is true of the code: no two items get the same
\* number, and the number of a later item differs from the next number to
\* give out.
C26_PrioritiesDistinct ==
    mode = "UnsortedDisjointMap"
    => /\ \A i \in 1..Len(TaggedSoFar) : \A j \in 1..Len(TaggedSoFar) :
            i # j => TaggedSoFar[i].priority # TaggedSoFar[j].priority
       /\ \A i \in 1..Len(TaggedSoFar) : TaggedSoFar[i].priority # priority

\* The numbers descend: the first item consumed has NonZeroUsize::MAX, the
\* second one less.
C26_Descending ==
    /\ mode = "UnsortedDisjointMap"
    /\ Len(TaggedSoFar) = 2
    /\ TaggedSoFar[1].priority = NonZeroUsizeMAX
    /\ TaggedSoFar[2].priority = NonZeroUsizeMAX - 1


\* ------------------------------------ claim C27: merging is transparent

\* A step of UnsortedDisjointMap::next that merges: an item is held before
\* and after, a non-empty item was consumed and nothing was returned.
C27_MergeStep ==
    /\ mode = "UnsortedDisjointMap"
    /\ option_priority # None
    /\ option_priority' # None
    /\ out' = out
    /\ Len(iter'.yielded) = Len(iter.yielded) + 1
    /\ iter'.yielded[Len(iter'.yielded)].start <= iter'.yielded[Len(iter'.yielded)].end

\* What a merging step does: the two items overlap or touch and have one
\* value, and the item held afterwards spans both under the priority
\* number of the earlier one.
C27_MergeOk ==
    LET held == Unwrap(option_priority)
        item == iter'.yielded[Len(iter'.yielded)]
    IN  /\ ~IntegerBetween(held, item)
        /\ held.value = item.value
        /\ option_priority' =
             Some(Prio(Min2(held.start, item.start), Max2(held.end, item.end),
                       held.value, held.priority))

\* When the whole pipeline has run: its result is UnionIterMap over the
\* sorted normalized stream, and equals UnionIterMap over the sorted list
\* tagged item by item with nothing merged.
C27_SameAsUnmerged ==
    (mode = "UnionIterMap" /\ finished /\ iter.kind = "Vec") =>
        /\ out = UnionIterMapOf(iter.yielded)
        /\ out = UnionIterMapOf(
                     SortedByStart(TaggedItemByItem(iter.source, NonZeroUsizeMAX)))

\* C27: UnsortedDisjointMap merges two items only when they overlap or
\* touch and carry equal values, the merged item keeps the priority number
\* of the earlier one, and for every input list sort-by-start plus
\* UnionIterMap gives on the normalized stream what it gives on the list
\* tagged item by item with nothing merged.
C27_MergingIsTransparent ==
    /\ [](C27_SameAsUnmerged)
    /\ [][C27_MergeStep => C27_MergeOk]_vars

\* A list of three items of which normalization merged two, between items
\* of another value, run to the end.
C27_Witness ==
    /\ mode = "UnionIterMap"
    /\ finished
    /\ iter.kind = "Vec"
    /\ Len(iter.source) = 3
    /\ \A i \in 1..3 : iter.source[i].start <= iter.source[i].end
    /\ Len(iter.yielded) = 2
    /\ Cardinality({iter.source[i].value : i \in 1..3}) = 2
    /\ Len(out) >= 2


\* ------------------------------------- claim C30: NotIter::next recursion

\* A step in which NotIter::next pulls an item and calls itself again: an
\* item is consumed, nothing is returned and next_time_return_none stays
\* unset.
C30_ReInvokes ==
    /\ mode = "NotIter"
    /\ Len(iter'.yielded) = Len(iter.yielded) + 1
    /\ out' = out
    /\ ~next_time_return_none'

\* The items NotIter has pulled from its upstream, the final None included.
NotIterPulls == Len(iter.yielded) + (IF iter.done THEN 1 ELSE 0)

\* C30: over a Sorted-Disjoint input NotIter::next calls itself again only
\* on the first input range, when that range starts at start_not, the
\* domain's minimum; so a call re-invokes itself at most once and pulls at
\* most two items, and over all the calls the pulls exceed the ranges
\* returned by at most two (the re-invocation and the call that returns
\* None at the maximum).
C30_RecursesAtMostOnce ==
    /\ [][C30_ReInvokes =>
            /\ iter.yielded = <<>>
            /\ start_not = min_value2
            /\ iter'.yielded[1].start = start_not]_vars
    /\ [](mode = "NotIter" => NotIterPulls <= Len(out) + 2)

\* The first call has re-invoked itself and then returned a gap: two items
\* pulled, one range returned.
C30_Witness ==
    /\ mode = "NotIter"
    /\ Len(iter.yielded) = 2
    /\ iter.yielded[1].start = min_value2
    /\ Len(out) = 1
    /\ out[1].start = iter.yielded[1].end + 1


\* ------------------------------------------- exhaustion, upstream not fused

\* NotIter::new over a given kind of upstream.
InitNotOver(kind) ==
    /\ T = IntegerType(MinValue, MaxValue)
    /\ mode = "NotIter"
    /\ iter = NewIter(kind)
    /\ option_range = None
    /\ start_not = min_value2
    /\ next_time_return_none = FALSE
    /\ NoSweep
    /\ out = <<>>
    /\ finished = FALSE
    /\ overflow = FALSE
    /\ NoNorm
    /\ NoCheck

\* SymDiffIter::new over a given kind of upstream: the constructor pulls the
\* first item.
InitSymDiffOver(kind) ==
    /\ T = IntegerType(MinValue, MaxValue)
    /\ mode = "SymDiffIter"
    /\ \E p \in Pulls(NewIter(kind)) :
        /\ iter = p.iter
        /\ next_item = p.item
    /\ workspace = <<>>
    /\ workspace_next_end = None
    /\ gather = None
    /\ ready_to_go = None
    /\ option_range = None
    /\ start_not = None
    /\ next_time_return_none = FALSE
    /\ out = <<>>
    /\ finished = FALSE
    /\ overflow = FALSE
    /\ NoNorm
    /\ NoCheck

\* The three operators, each over an upstream of its contract that is not
\* fused, called again and again, also after they have returned None.
InitNotFused ==
    \/ InitNotOver("NotFusedSortedDisjoint")
    \/ InitSymDiffOver("NotFusedSortedStarts")
    \/ InitUnionMapOver("NotFusedPrioritySortedStarts")

NotFusedNext == NotIterNext \/ SymDiffIterNext \/ UnionIterMapNext

SpecNotFused == InitNotFused /\ [][NotFusedNext]_vars

\* ------------------------------------- claim C29: exhaustion is final

\* C29: once NotIter, SymDiffIter or UnionIterMap has returned None, a later
\* call returns nothing but None and leaves the upstream alone; and none of
\* them calls the upstream's next() after the upstream has returned None,
\* although the upstream is not fused and would give an item if asked.
C29_ExhaustionIsFinal ==
    /\ [][finished => (finished' /\ out' = out /\ iter' = iter)]_vars
    /\ [][iter.done => iter' = iter]_vars

\* NotIter has returned None after its upstream did, and the upstream would
\* give a further range if asked.
C29_Witness ==
    /\ mode = "NotIter"
    /\ finished
    /\ iter.done
    /\ out # <<>>
    /\ UpstreamItems(iter) # {}

\* The same for SymDiffIter.
C29_WitnessSymDiff ==
    /\ mode = "SymDiffIter"
    /\ finished
    /\ iter.done
    /\ out # <<>>
    /\ UpstreamItems(iter) # {}

\* The same for UnionIterMap.
C29_WitnessMap ==
    /\ mode = "UnionIterMap"
    /\ finished
    /\ iter.done
    /\ out # <<>>
    /\ UpstreamItems(iter) # {}


\* ---------------------------------------------------------- termination

\* SymDiffIter over start-sorted inputs of up to MaxLen ranges and
\* UnionIterMap over start-sorted inputs of up to MaxItems - 1 items, next()
\* being called until it returns None.
InitDrain == InitSymDiff \/ InitUnionMapOver("PrioritySortedStartsShort")

DrainNext == SymDiffIterNext \/ UnionIterMapNext

SpecDrain == InitDrain /\ [][DrainNext]_vars

\* The caller keeps calling next() and a call that has begun keeps running
\* its loop: a pass of the loop that can be taken is taken.
SpecDrainFair == SpecDrain /\ WF_vars(DrainNext)

\* ---------------------------------------------- claim C28: termination

\* The fragments in the workspace (a Vec in SymDiffIter, a heap in
\* UnionIterMap).
Fragments ==
    IF mode = "SymDiffIter" THEN {workspace[i] : i \in 1..Len(workspace)}
    ELSE workspace

\* A pass of the loop consumes an input item (it calls the upstream).
C28_Consumes == iter' # iter

\* A pass of the loop returns: a range, or None.
C28_Returns == out' # out \/ (finished' /\ ~finished)

\* A pass of the loop shrinks or advances the workspace: it empties it, or
\* every fragment left starts after every fragment there was.
C28_Advances ==
    /\ Fragments # {}
    /\ \A a \in Fragments' : \A b \in Fragments : a.start > b.start

\* C28: over every finite start-sorted input every pass of the main loop of
\* SymDiffIter::next and UnionIterMap::next consumes an input item, returns,
\* or shrinks or advances the workspace, so every call returns after
\* finitely many passes; and when next() is called again and again, it
\* eventually returns None.
C28_Terminates ==
    /\ [][C28_Consumes \/ C28_Returns \/ C28_Advances]_vars
    /\ <>finished

\* SymDiffIter has returned None after three items and two ranges.
C28_Witness ==
    /\ mode = "SymDiffIter"
    /\ finished
    /\ Len(iter.yielded) = 3
    /\ Len(out) = 2

\* UnionIterMap has returned None after two overlapping items and two
\* ranges.
C28_WitnessMap ==
    /\ mode = "UnionIterMap"
    /\ finished
    /\ Len(iter.yielded) = 2
    /\ iter.yielded[2].start <= iter.yielded[1].end
    /\ Len(out) = 2


\* ------------------------------------------------------------ the sweeps

\* SymDiffIter over start-sorted inputs of non-empty ranges and UnionIterMap
\* over start-sorted inputs of priority-tagged items, run pass by pass.
InitSweeps == InitSymDiff \/ InitUnionMap

SpecSweeps == InitSweeps /\ [][DrainNext]_vars

\* ------------------------------------- claim C33: workspace invariants

\* The smallest end among a non-empty set of fragments.
SmallestEnd(F) == CHOOSE e \in {f.end : f \in F} : \A f \in F : e <= f.end

\* C33: at every start of the main loop of SymDiffIter and of UnionIterMap
\* all fragments in the workspace have one start; and in SymDiffIter
\* workspace_next_end is None exactly when the workspace is empty and
\* otherwise is the smallest end among its fragments, so the unwrap() on it
\* in the sweep finds a value.
C33_WorkspaceInvariants ==
    (mode \in {"SymDiffIter", "UnionIterMap"}) =>
        /\ \A a \in Fragments : \A b \in Fragments : a.start = b.start
        /\ mode = "SymDiffIter" =>
            /\ (workspace_next_end = None) <=> (Fragments = {})
            /\ Fragments # {} => workspace_next_end = Some(SmallestEnd(Fragments))

\* SymDiffIter after a sweep that trimmed two fragments of different ends
\* to a new common start.
C33_Witness ==
    /\ mode = "SymDiffIter"
    /\ Len(workspace) = 2
    /\ workspace[1].end # workspace[2].end
    /\ \E i \in 1..Len(iter.yielded) : iter.yielded[i].start < workspace[1].start
    /\ \A i \in 1..Len(iter.yielded) : iter.yielded[i].start # workspace[1].start

\* UnionIterMap with two trimmed fragments in the workspace.
C33_WitnessMap ==
    /\ mode = "UnionIterMap"
    /\ Cardinality(workspace) = 2
    /\ \A w \in workspace : \A i \in 1..Len(iter.yielded) :
           iter.yielded[i].start # w.start


\* ------------------------------------- claim C36: the single-slot buffers

\* A pass stores a value into ready_to_go.
C36_Stores == ready_to_go' # None /\ ready_to_go' # ready_to_go

\* What a pass does with a gathered value it does not leave alone: it
\* lengthens it, moves it to ready_to_go, or returns it.
C36_GatherKept ==
    \/ /\ gather' # None
       /\ Unwrap(gather').start = Unwrap(gather).start
       /\ Unwrap(gather').end > Unwrap(gather).end
       /\ mode = "UnionIterMap" => Unwrap(gather').value = Unwrap(gather).value
       /\ UNCHANGED <<ready_to_go, out>>
    \/ ready_to_go' = gather /\ out' = out
    \/ out' = out \o gather /\ gather' = None /\ ready_to_go' = ready_to_go

\* C36: in SymDiffIter and UnionIterMap ready_to_go is empty when a flushed
\* gather is stored into it; a value in ready_to_go is returned by the very
\* next pass and cleared, so by one call of next(); what next() returns is
\* always the one value taken out of a slot; a gathered value is never
\* dropped; no value is returned twice; and when None is returned gather,
\* ready_to_go, next_item and the workspace are all empty.
C36_SlotsLoseNothing ==
    /\ [][C36_Stores => (ready_to_go = None /\ ready_to_go' = gather)]_vars
    /\ [][ready_to_go # None =>
            (ready_to_go' = None /\ out' = out \o ready_to_go /\ gather' = gather)]_vars
    /\ [][out' # out =>
            \/ ready_to_go # None /\ out' = out \o ready_to_go
            \/ ready_to_go = None /\ gather # None /\ out' = out \o gather]_vars
    /\ [][(gather # None /\ gather' # gather) => C36_GatherKept]_vars
    /\ [](\A i \in 1..Len(out) : \A j \in 1..Len(out) : i # j => out[i] # out[j])
    /\ [](finished =>
            /\ gather = None
            /\ ready_to_go = None
            /\ next_item = None
            /\ Fragments = {})

\* SymDiffIter has returned None; before that a gathered range went through
\* ready_to_go and another was returned from gather.
C36_Witness ==
    /\ mode = "SymDiffIter"
    /\ finished
    /\ Len(out) = 2

\* UnionIterMap holds a flushed item in ready_to_go and the next one in
\* gather.
C36_WitnessMap ==
    /\ mode = "UnionIterMap"
    /\ ready_to_go # None
    /\ gather # None
    /\ Len(out) = 1


\* ------------------------------------- claim C37: no overflow in the sweeps

\* C37: over every start-sorted input of non-empty ranges, ranges starting
\* at the minimum or ending at the maximum included, SymDiffIter and
\* UnionIterMap never evaluate next_item.start - 1 with the start at the
\* minimum, nor gather.end + 1 or next_end + 1 with the operand at the
\* maximum.
C37_NoOverflowInSweeps ==
    (mode \in {"SymDiffIter", "UnionIterMap"}) => ~overflow

\* SymDiffIter has swept an input whose first range starts at the minimum
\* and whose last range ends at the maximum, a range in between.
C37_Witness ==
    /\ mode = "SymDiffIter"
    /\ finished
    /\ Len(iter.yielded) = 3
    /\ iter.yielded[1].start = min_value2
    /\ iter.yielded[3].end = max_value2
    /\ iter.yielded[2].start > iter.yielded[1].start
    /\ iter.yielded[2].end = max_value2
    /\ out # <<>>

\* UnionIterMap has swept such an input, the value gathered last reaching
\* the maximum.
C37_WitnessMap ==
    /\ mode = "UnionIterMap"
    /\ finished
    /\ Len(iter.yielded) = 3
    /\ iter.yielded[1].start = min_value2
    /\ iter.yielded[3].end = max_value2
    /\ iter.yielded[3].start > iter.yielded[1].start
    /\ out[Len(out)].end = max_value2


\* ------------------------------------------- the sweeps over merged streams

\* SymDiffIter over Merge and KMerge of Sorted-Disjoint streams, UnionIterMap
\* over MergeMap and KMergeMap of Sorted-Disjoint map streams.
InitSymDiffKMerge ==
    /\ T = IntegerType(MinValue, MaxValueList)
    /\ mode = "SymDiffIter"
    /\ \E p \in Pulls(NewIter("KMerge")) :
        /\ iter = p.iter
        /\ next_item = p.item
    /\ workspace = <<>>
    /\ workspace_next_end = None
    /\ gather = None
    /\ ready_to_go = None
    /\ option_range = None
    /\ start_not = None
    /\ next_time_return_none = FALSE
    /\ out = <<>>
    /\ finished = FALSE
    /\ overflow = FALSE
    /\ NoNorm
    /\ NoCheck

InitStreams ==
    \/ InitSymDiffMerge
    \/ InitSymDiffKMerge
    \/ InitMergeMap
    \/ InitKMergeMap

SpecStreams == InitStreams /\ [][DrainNext]_vars

\* ------------------------------------- claim C31: bounded workspace

\* The number of fragments in the workspace.
WorkspaceLen ==
    IF mode = "SymDiffIter" THEN Len(workspace) ELSE Cardinality(workspace)

\* C31: when SymDiffIter runs over a merge of k Sorted-Disjoint streams, or
\* UnionIterMap over a MergeMap or KMergeMap of k Sorted-Disjoint map
\* streams, the workspace never holds more than k fragments, however many
\* ranges the streams give.
C31_WorkspaceBounded ==
    WorkspaceLen <= Cardinality(MergeStreams(iter.kind))

\* SymDiffIter over Merge(a, b): three ranges were consumed and the
\* workspace holds two fragments, one of each stream.
C31_Witness ==
    /\ mode = "SymDiffIter"
    /\ iter.kind = "Merge"
    /\ Len(iter.yielded) = 3
    /\ next_item = None
    /\ Len(workspace) = 2

\* UnionIterMap over MergeMap(a, b): three items were consumed and the
\* workspace holds two fragments.
C31_WitnessMap ==
    /\ mode = "UnionIterMap"
    /\ iter.kind = "MergeMap"
    /\ Len(iter.yielded) = 3
    /\ next_item = None
    /\ Cardinality(workspace) = 2

\* ------------------------------------- claim C32: no priority collisions

\* C32: when UnionIterMap runs over MergeMap or KMergeMap of Sorted-Disjoint
\* map streams, no two fragments in the workspace have one priority number,
\* and an item that is compared with the best fragment and pushed has a
\* priority number no fragment in the workspace has, although all items of
\* a stream carry one number.
C32_NoPriorityCollision ==
    (mode = "UnionIterMap") =>
        /\ \A a \in workspace : \A b \in workspace :
               a.priority = b.priority => a = b
        /\ (next_item # None /\ workspace # {}
            /\ UnionMapGoesIntoWorkspace(Unwrap(next_item), workspace))
           => \A w \in workspace : w.priority # Unwrap(next_item).priority

\* Two items of one stream were consumed, the second while a fragment of
\* the other stream was in the workspace.
C32_Witness ==
    /\ mode = "UnionIterMap"
    /\ Len(iter.yielded) = 3
    /\ iter.yielded[1].priority = iter.yielded[3].priority
    /\ iter.yielded[2].priority # iter.yielded[1].priority
    /\ iter.yielded[2].end >= iter.yielded[3].start
    /\ Cardinality(workspace) = 2


\* ------------------------------------------- UnionIterMap, crowded inputs

\* UnionIterMap::new over a priority-tagged SortedStarts upstream of up to
\* MaxItems items on a domain one shorter than that of InitUnionMap, so that
\* the items crowd: most streams have several items of one start.
InitCrowded ==
    /\ T = IntegerType(MinValue, MaxValueMap - 1)
    /\ mode = "UnionIterMap"
    /\ \E p \in Pulls(NewIter("PrioritySortedStarts")) :
        /\ iter = p.iter
        /\ next_item = p.item
    /\ workspace = {}
    /\ workspace_next_end = None
    /\ gather = None
    /\ ready_to_go = None
    /\ option_range = None
    /\ start_not = None
    /\ next_time_return_none = FALSE
    /\ out = <<>>
    /\ finished = FALSE
    /\ overflow = FALSE
    /\ NoNorm
    /\ NoCheck

SpecCrowded == InitCrowded /\ [][UnionIterMapNext]_vars

\* ------------------------------------- claim C34: tie order does not matter

\* The permutations of 1..n, for every length a stream can have.
PermutationsOfLen ==
    [n \in 0..MaxItems |->
        {g \in [1..n -> 1..n] : \A i, j \in 1..n : g[i] = g[j] => i = j}]

\* The start-sorted rearrangements of the sequence q: the sequences with
\* the items of q in which only items of one start have changed places.
TiePermutations(q) ==
    {p \in {[i \in 1..Len(q) |-> q[f[i]]] : f \in PermutationsOfLen[Len(q)]} :
        \A i \in 1..(Len(q) - 1) : p[i].start <= p[i + 1].start}

\* C34: when UnionIterMap has returned None over a start-sorted stream of
\* items with distinct priority numbers, the sequence it yielded is the
\* sequence it yields over every rearrangement of the stream that permutes
\* items of one start.
C34_TieOrderIrrelevant ==
    (mode = "UnionIterMap" /\ finished) =>
        \A p \in TiePermutations(iter.yielded) : UnionIterMapOf(p) = out

\* Three items of one start with different ends and values, consumed whole:
\* six orders of the stream.
C34_Witness ==
    /\ mode = "UnionIterMap"
    /\ finished
    /\ Len(iter.yielded) = 3
    /\ Cardinality({iter.yielded[i].start : i \in 1..3}) = 1
    /\ Cardinality({iter.yielded[i].end : i \in 1..3}) = 2
    /\ Cardinality({iter.yielded[i].value : i \in 1..3}) = 2
    /\ Cardinality(TiePermutations(iter.yielded)) = 6
    /\ Len(out) >= 2


\* ------------------------------------- claim C35: pruning is output-neutral

\* The rebuild without the pruning: every fragment the segment did not
\* consume is kept, trimmed to start after it.
RebuildKeepingAll(ws, next_end) ==
    {[w EXCEPT !.start = add_one(next_end)] : w \in {x \in ws : x.end > next_end}}

RECURSIVE KeepingAllFold(_, _, _, _)
\* The variant of UnionIterMap::next without the pruning, called until it
\* returns None: every same-start item is pushed and the rebuild keeps every
\* fragment not fully consumed; all else as in UnionIterMapFold.
KeepingAllFold(q, item, ws, g) ==
    IF item # None /\ UnionMapGoesIntoWorkspace(Unwrap(item), ws)
    THEN KeepingAllFold(
             IF q = <<>> THEN q ELSE Tail(q),
             IF q = <<>> THEN None ELSE Some(Head(q)),
             ws \cup {Unwrap(item)},
             g)
    ELSE IF ws = {} THEN g
    ELSE LET best == Peek(ws)
             next_end == UnionMapSegmentEnd(best, item)
             front == RangeValue(best.start, next_end, best.value)
             continues == IF g = None THEN FALSE
                          ELSE UnionMapContinues(Unwrap(g), best)
         IN  (IF continues THEN <<>> ELSE g)
             \o KeepingAllFold(q, item, RebuildKeepingAll(ws, next_end),
                               IF continues
                               THEN Some([Unwrap(g) EXCEPT !.end = next_end])
                               ELSE Some(front))

KeepingAllOf(q) ==
    IF q = <<>> THEN <<>>
    ELSE KeepingAllFold(Tail(q), Some(Head(q)), {}, None)

\* C35: when UnionIterMap has returned None over a start-sorted input with
\* distinct priority numbers, the sequence it yielded is the sequence the
\* variant yields that pushes every same-start item and keeps every
\* fragment not fully consumed.
C35_PruningIsNeutral ==
    (mode = "UnionIterMap" /\ finished) => out = KeepingAllOf(iter.yielded)

\* The implemented algorithm threw away a same-start item that is worse
\* than the best fragment and reaches no further, and the output has two
\* ranges.
C35_Witness ==
    /\ mode = "UnionIterMap"
    /\ finished
    /\ Len(iter.yielded) = 3
    /\ iter.yielded[1].start = iter.yielded[2].start
    /\ iter.yielded[2].priority > iter.yielded[1].priority
    /\ iter.yielded[2].end <= iter.yielded[1].end
    /\ iter.yielded[2].value # iter.yielded[1].value
    /\ Len(out) = 2


\* ---------------------------------------------- RangeValuesToRangesIter
\* range_values.rs:244: the range held and the next range are adjacent.
RangesAdjacentNever(current_end, next_start) == FALSE
RangesAdjacent(current_end, next_start) == add_one(current_end) = next_start

\* No range is held: hold the range of this item and continue.
ToRanges_Adopt ==
    /\ mode = "RangeValuesToRangesIter"
    /\ option_range = None
    /\ \E p \in Pulls(iter) :
        /\ p.item # None
        /\ iter' = p.iter
        /\ option_range' = Some(Rng(Unwrap(p.item).start, Unwrap(p.item).end))
    /\ UNCHANGED out
    /\ UnsortedUnchanged

\* The next range is adjacent to the one held: merge them and continue.
ToRanges_Merge ==
    /\ mode = "RangeValuesToRangesIter"
    /\ option_range # None
    /\ \E p \in Pulls(iter) :
        /\ p.item # None
        /\ RangesAdjacent(Unwrap(option_range).end, Unwrap(p.item).start)
        /\ iter' = p.iter
        /\ option_range' = Some(Rng(Unwrap(option_range).start, Unwrap(p.item).end))
    /\ UNCHANGED out
    /\ UnsortedUnchanged

\* The next range is not adjacent: hold it and return the one held.
ToRanges_Emit ==
    /\ mode = "RangeValuesToRangesIter"
    /\ option_range # None
    /\ \E p \in Pulls(iter) :
        /\ p.item # None
        /\ ~RangesAdjacent(Unwrap(option_range).end, Unwrap(p.item).start)
        /\ iter' = p.iter
        /\ option_range' = Some(Rng(Unwrap(p.item).start, Unwrap(p.item).end))
    /\ out' = out \o option_range
    /\ UnsortedUnchanged

\* The upstream is exhausted and a range is held: return option_ranges.take().
ToRanges_Flush ==
    /\ mode = "RangeValuesToRangesIter"
    /\ option_range # None
    /\ \E p \in Pulls(iter) :
        /\ p.item = None
        /\ iter' = p.iter
    /\ out' = out \o option_range
    /\ option_range' = None
    /\ UnsortedUnchanged

\* The upstream is exhausted and no range is held: next() returns None.
\* complement_to_set put a NotIter on top (into_sorted_disjoint().complement());
\* from here on the NotIter is followed, over the ranges
\* RangeValuesToRangesIter returns to it one at a time.
ToRanges_IntoNotIter ==
    /\ mode = "RangeValuesToRangesIter"
    /\ option_range = None
    /\ \E p \in Pulls(iter) :
        /\ p.item = None
        /\ iter' = NewVecIter(out, p.iter.yielded)
    /\ mode' = "NotIter"
    /\ start_not' = min_value2
    /\ out' = <<>>
    /\ UNCHANGED <<T, checkVars, normVars, option_range, next_time_return_none, sweepVars,
                   finished, overflow>>

RangeValuesToRangesNext ==
    \/ ToRanges_Adopt
    \/ ToRanges_Merge
    \/ ToRanges_Emit
    \/ ToRanges_Flush
    \/ ToRanges_IntoNotIter

\* complement_to_set over a SortedDisjointMap upstream.
InitComplementToSet ==
    /\ T = IntegerType(MinValue, MaxValueList)
    /\ mode = "RangeValuesToRangesIter"
    /\ iter = NewIter("SortedDisjointMap")
    /\ option_range = None
    /\ start_not = None
    /\ next_time_return_none = FALSE
    /\ NoSweep
    /\ out = <<>>
    /\ finished = FALSE
    /\ overflow = FALSE
    /\ NoNorm
    /\ NoCheck

ComplementToSetNext == RangeValuesToRangesNext \/ NotIterNext

SpecComplementToSet == InitComplementToSet /\ [][ComplementToSetNext]_vars

\* ------------------------------------- claim C38: complement of a map

\* C38: for every Sorted-Disjoint map stream M, touching ranges of
\* different values included, RangeValuesToRangesIter yields the
\* Sorted-Disjoint sequence that covers exactly the coordinates M covers
\* (touching ranges merged), and complement_to_set(M), the NotIter over it,
\* has yielded when it returns None the Sorted-Disjoint sequence that covers
\* exactly the coordinates of the domain no range of M covers.
C38_ComplementOfMap ==
    /\ (mode = "RangeValuesToRangesIter")
         => /\ IsSortedDisjoint(out)
            /\ CoverSeq(out \o option_range) = CoverSeq(iter.yielded)
    /\ (mode = "NotIter" /\ iter.kind = "Vec")
         => IsCanonicalFor(iter.yielded \o iter.rest, CoverSeq(iter.source))
    /\ (mode = "NotIter" /\ iter.kind = "Vec" /\ finished)
         => IsCanonicalFor(out, Domain \ CoverSeq(iter.source))

\* M has three items, the first two touching with different values; the
\* ranges are two and the complement, returned whole, is two ranges.
C38_Witness ==
    /\ mode = "NotIter"
    /\ iter.kind = "Vec"
    /\ finished
    /\ Len(iter.source) = 3
    /\ iter.source[1].end + 1 = iter.source[2].start
    /\ iter.source[1].value # iter.source[2].value
    /\ Len(iter.yielded) = 2
    /\ Len(out) = 2


\* ------------------------------------------------------------ size_hint
\* union_iter.rs:178-188 and unsorted_disjoint.rs:78-88, over an upstream
\* that knows its length: a vector's iterator, whose size_hint is
\* (len, Some(len)) for the len items it has left.

UpstreamSizeHint(it) == [low |-> Len(it.rest), high |-> Some(Len(it.rest))]

\* UnionIter::size_hint.
UnionIter_size_hint ==
    LET h == UpstreamSizeHint(iter)
        low == Min2(h.low, 1)
    IN  IF option_range # None
        THEN [low |-> low, high |-> Some(Unwrap(h.high) + 1)]
        ELSE [low |-> low, high |-> h.high]

\* UnsortedDisjoint::size_hint.
UnsortedDisjoint_size_hint ==
    LET h == UpstreamSizeHint(iter)
        lower == IF h.low = 0 THEN 0 ELSE 1
    IN  IF option_range # None
        THEN [low |-> lower, high |-> Some(Unwrap(h.high) + 1)]
        ELSE [low |-> lower, high |-> h.high]

\* The size_hint of the iterator that is running.
size_hint ==
    IF mode = "UnionIter" THEN UnionIter_size_hint ELSE UnsortedDisjoint_size_hint

\* The number of ranges next() returns from this state on, before its None.
StillToYield ==
    IF mode = "UnionIter"
    THEN Len(UnionIterFold(iter.rest, option_range))
    ELSE Len(UnsortedDisjointFold(iter.rest, option_range))

\* The lists of up to MaxLen ranges, inverted ranges included.
RangeLists == UNION {[1..n -> AllRanges] : n \in 0..MaxLen}

\* UnionIter::new over a vector sorted by start, and UnsortedDisjoint::new
\* over a vector in any order.
InitSizeHint ==
    /\ T = IntegerType(MinValue, MaxValueMap)
    /\ mode \in {"UnionIter", "UnsortedDisjoint"}
    /\ \E q \in RangeLists :
        /\ mode = "UnionIter" => \A i \in 1..(Len(q) - 1) : q[i].start <= q[i + 1].start
        /\ iter = NewVecIter(q, q)
    /\ option_range = None
    /\ start_not = None
    /\ next_time_return_none = FALSE
    /\ NoSweep
    /\ out = <<>>
    /\ finished = FALSE
    /\ overflow = FALSE
    /\ NoNorm
    /\ NoCheck

SpecSizeHint == InitSizeHint /\ [][IngestNext]_vars

C39_Sized == mode \in {"UnionIter", "UnsortedDisjoint"} /\ iter.kind = "Vec" /\ ~finished

\* C39: in every state of UnionIter and of UnsortedDisjoint over an upstream
\* of known length, the number of ranges still to be returned is at least the
\* lower bound size_hint reports and at most the upper bound it reports.
C39_SizeHintSound ==
    C39_Sized =>
        /\ size_hint.low <= StillToYield
        /\ StillToYield <= Unwrap(size_hint.high)

\* The upper bound is never exceeded.
C39_UpperBoundSound == C39_Sized => StillToYield <= Unwrap(size_hint.high)

\* The lower bound is right unless every range left is inverted and no range
\* is in progress.
C39_LowerBoundSound ==
    (C39_Sized /\ size_hint.low > StillToYield) =>
        /\ option_range = None
        /\ iter.rest # <<>>
        /\ \A i \in 1..Len(iter.rest) : iter.rest[i].start > iter.rest[i].end

\* A lower bound of 1 with nothing to come: only inverted ranges are left.
C39_OverPromised == C39_Sized /\ size_hint.low = 1 /\ StillToYield = 0

\* A range in progress and items left: the bounds are 1 and the length plus one.
C39_InProgress ==
    /\ C39_Sized
    /\ option_range # None
    /\ Len(iter.rest) = 2
    /\ size_hint = [low |-> 1, high |-> Some(3)]
    /\ StillToYield = 3

====
